---- MODULE Spec2Model ----
(***************************************************************************)
(* State-machine model of the actuator controller's device communication   *)
(* layer: BluetoothManager (serial transport with a background reader      *)
(* thread), parse_response (the response decoder) and the OTA upload of    *)
(* ActuatorControllerApp.                                                  *)
(*                                                                         *)
(* Threads: one caller (the UI thread, which calls connect, disconnect and *)
(* the send functions one at a time), one reader thread per successful     *)
(* open, and one worker thread per started OTA upload.  A step of the      *)
(* model is one thread running a few source lines that no other thread can *)
(* usefully observe half-done; the places where another thread can cut in  *)
(* (the join and the close of disconnect, the settle sleep of connect, the *)
(* reader between its loop test and its read) are separate steps.          *)
(***************************************************************************)
EXTENDS Integers, Sequences, FiniteSets, TLC

\* ------------------------------------------------------------------ bounds
\* successful opens of a port (each makes one handle and one reader thread)
MaxHandles == 2
\* calls of connect / disconnect / send_command / send_bytes by the caller
MaxCalls == 3
\* lines the device sends in one run
MaxLines == 1
\* uploads started in one run
MaxStarts == 2
\* user actions (connect, browse, start, abort) in one run with uploads
MaxOtaCalls == 4
\* lines the device sends in one run with uploads
MaxOtaLines == 2

None == 0
Ports == {1}
HandleIds == 1..MaxHandles

VARIABLES
    \* BluetoothManager fields (bluetooth_manager.py:14-25)
    serial_port,    \* None or the handle held
    connected,      \* BOOLEAN
    port_name,      \* None or a port
    stop_reader,    \* the _stop_reader event
    reader_thread,  \* None or the thread started last
    \* the environment
    openHandles,    \* handles opened and not yet closed
    nHandles,       \* handles opened so far
    readers,        \* position of each reader thread
    wire,           \* every write attempted: handle, data, whether it succeeded
    linesLeft,      \* lines the device may still send
    \* the caller
    pc,             \* position of the caller inside connect / disconnect
    cur,            \* the call being run
    ret,            \* the call that returned last, and its result
    lastSend,       \* result of the last send_command / send_bytes
    callsLeft,      \* calls the caller may still start
    tweaksLeft,     \* presses of "-", "+" and the infinite checkbox still to come
    \* the callbacks
    connLog,        \* every on_connection_changed(x) fired, with its origin
    uiQueue,        \* tasks handed to the UI thread with root.after
    \* the decoder
    rx,             \* a response line, as a sequence of characters
    resp,           \* what parse_response made of it: its type and its data
    \* ActuatorControllerApp, firmware state (actuator_controller.py:54-59, 511-517)
    ota_file_path,  \* None or the file chosen, given by its size in bytes
    ota_in_progress,
    ota_abort_flag,
    ota_ready_event,
    ota_error_message,  \* the empty string for None
    ota_finished,   \* the message and the outcome update_ui of _ota_finish showed last
    ota_progress,   \* ota_progress_var, as a fraction n/d
    workers,        \* the upload threads: position and local variables of each
    \* ActuatorControllerApp, cycle state (actuator_controller.py:42-46)
    is_running,
    is_paused,
    current_cycle,  \* a value as the decoder gives it: an integer or a string
    target_cycles,  \* the same
    infinite_cycles,
    cycles_var,     \* the IntVar of the cycles label (actuator_controller.py:229)
    \* the UI thread
    ui_call         \* the handler the UI thread ran last: the commands it passed to
                    \* send_command, in order, and whether it raised

btVars == <<serial_port, port_name, stop_reader, reader_thread>>
linkVars == <<connected, connLog, uiQueue, wire, lastSend>>
envVars == <<openHandles, nHandles, readers, linesLeft>>
callVars == <<pc, cur, ret, callsLeft, tweaksLeft>>
otaVars == <<ota_file_path, ota_in_progress, ota_abort_flag, ota_ready_event,
             ota_error_message, ota_finished, ota_progress, workers>>
cycleVars == <<is_running, is_paused, current_cycle, target_cycles, infinite_cycles,
               cycles_var>>
appVars == <<rx, resp, ui_call, otaVars, cycleVars>>
vars == <<btVars, linkVars, envVars, callVars, appVars>>

\* ------------------------------------------------------------ callbacks
\* A task handed to the UI thread (root.after(0, ...)).
Task(kind, flag, line, msg, a, b) ==
    [kind |-> kind, flag |-> flag, line |-> line, msg |-> msg, a |-> a, b |-> b]

\* The fields of the state that a send or a callback changes, as one record, so
\* that a handler making several calls is the composition of their effects.
Link ==
    [connected |-> connected, connLog |-> connLog, uiQueue |-> uiQueue,
     wire |-> wire, lastSend |-> lastSend]

SetLink(s) ==
    /\ connected' = s.connected
    /\ connLog' = s.connLog
    /\ uiQueue' = s.uiQueue
    /\ wire' = s.wire
    /\ lastSend' = s.lastSend

\* on_connection_changed is the application's _on_connection_changed, installed
\* at construction: it hands _update_connection_ui(val) to the UI thread.
on_connection_changed(s, val, src) ==
    [s EXCEPT !.connLog = Append(@, [val |-> val, src |-> src]),
              !.uiQueue = Append(@, Task("conn", val, <<>>, "", 0, 0))]

\* on_data_received is the application's _on_data_received.
on_data_received(s, line) ==
    [s EXCEPT !.uiQueue = Append(@, Task("data", FALSE, line, "", 0, 0))]

\* mutant: the fault is notified but the state is left Connected
handle_disconnect_stays(s, src) == on_connection_changed(s, FALSE, src)

handle_disconnect(s, src) ==
    on_connection_changed([s EXCEPT !.connected = FALSE], FALSE, src)

is_connected(s) == s.connected /\ serial_port # None

\* ---------------------------------------------------------------- writes
\* What a write on the handle held can do: a closed handle always faults (pyserial
\* raises PortNotOpenError, a SerialException), an open one may.
WriteOutcomes == IF serial_port \in openHandles THEN {"ok", "fault"} ELSE {"fault"}

\* A command: its verb and its argument (CommandProtocol renders "VERB" or
\* "VERB:ARG").
NoArg == -1
Cmd(verb, arg) == [verb |-> verb, arg |-> arg]

\* An entry of wire: kind "line" with the command's verb and argument, or kind
\* "bytes" with the number of bytes as n.
Written(s, kind, verb, n, ok) ==
    [s EXCEPT !.wire = Append(@, [h |-> serial_port, kind |-> kind, verb |-> verb,
                                   n |-> n, ok |-> ok])]

Sent(s, fn, val) == [s EXCEPT !.lastSend = [fn |-> fn, val |-> val]]

\* mutant: the line is written without looking at the connection state
send_command_unguarded(s, command, outcome) ==
    IF outcome = "ok"
    THEN Sent(Written(s, "line", command.verb, command.arg, TRUE),
              "send_command", TRUE)
    ELSE Sent(handle_disconnect(Written(s, "line", command.verb, command.arg, FALSE),
                                "write"),
              "send_command", FALSE)

\* send_command(command): the line is command.strip() + "\n".
send_command(s, command, outcome) ==
    IF ~s.connected \/ serial_port = None
    THEN Sent(s, "send_command", FALSE)
    ELSE IF outcome = "ok"
         THEN Sent(Written(s, "line", command.verb, command.arg, TRUE),
                   "send_command", TRUE)
         ELSE Sent(handle_disconnect(Written(s, "line", command.verb, command.arg, FALSE),
                                     "write"),
                   "send_command", FALSE)

\* send_bytes(data): a raw write of len bytes, no framing.
send_bytes(s, len, outcome) ==
    IF ~s.connected \/ serial_port = None
    THEN Sent(s, "send_bytes", FALSE)
    ELSE IF outcome = "ok"
         THEN Sent(Written(s, "bytes", "", len, TRUE), "send_bytes", TRUE)
         ELSE Sent(handle_disconnect(Written(s, "bytes", "", len, FALSE), "write"),
                   "send_bytes", FALSE)

\* ---------------------------------------------------------- parse_response
\* Strings are sequences of one-character strings.

\* c in s
Contains(s, c) == \E i \in 1..Len(s) : s[i] = c

\* The first place of c in s at or after i, 0 when there is none: the scan of
\* str.split.
RECURSIVE Find(_, _, _)
Find(s, c, i) ==
    IF i > Len(s) THEN 0
    ELSE IF s[i] = c THEN i
    ELSE Find(s, c, i + 1)

\* mutant: the split is made at the last separator (rsplit)
RECURSIVE FindLast(_, _, _)
FindLast(s, c, i) ==
    IF i < 1 THEN 0
    ELSE IF s[i] = c THEN i
    ELSE FindLast(s, c, i - 1)

split1_last(s, c) ==
    LET i == FindLast(s, c, Len(s)) IN
    IF i = 0 THEN <<s>>
    ELSE <<SubSeq(s, 1, i - 1), SubSeq(s, i + 1, Len(s))>>

\* s.split(c, 1)
split1(s, c) ==
    LET i == Find(s, c, 1) IN
    IF i = 0 THEN <<s>>
    ELSE <<SubSeq(s, 1, i - 1), SubSeq(s, i + 1, Len(s))>>

\* s.split(c)
RECURSIVE split(_, _)
split(s, c) ==
    LET i == Find(s, c, 1) IN
    IF i = 0 THEN <<s>>
    ELSE <<SubSeq(s, 1, i - 1)>> \o split(SubSeq(s, i + 1, Len(s)), c)

\* Python's int(str): surrounding whitespace is dropped, one sign is allowed, then
\* decimal digits with single underscores between digits; anything else raises
\* ValueError.
DigitVal ==
    [c \in {"0", "1", "2", "3", "4", "5", "6", "7", "8", "9"} |->
        CASE c = "0" -> 0 [] c = "1" -> 1 [] c = "2" -> 2 [] c = "3" -> 3
          [] c = "4" -> 4 [] c = "5" -> 5 [] c = "6" -> 6 [] c = "7" -> 7
          [] c = "8" -> 8 [] c = "9" -> 9]
IsDigit(c) == c \in DOMAIN DigitVal

RECURSIVE lstrip(_)
lstrip(s) == IF s # <<>> /\ s[1] = " " THEN lstrip(Tail(s)) ELSE s
RECURSIVE rstrip(_)
rstrip(s) == IF s # <<>> /\ s[Len(s)] = " " THEN rstrip(SubSeq(s, 1, Len(s) - 1)) ELSE s
strip(s) == rstrip(lstrip(s))

IntSign(t) == IF t # <<>> /\ t[1] = "-" THEN -1 ELSE 1
IntBody(t) == IF t # <<>> /\ t[1] \in {"-", "+"} THEN Tail(t) ELSE t

int_ok(v) ==
    LET b == IntBody(strip(v)) IN
    /\ b # <<>>
    /\ \A i \in 1..Len(b) :
        \/ IsDigit(b[i])
        \/ /\ b[i] = "_"
           /\ 1 < i /\ i < Len(b)
           /\ IsDigit(b[i - 1]) /\ IsDigit(b[i + 1])

RECURSIVE IntDigits(_, _)
IntDigits(b, acc) ==
    IF b = <<>> THEN acc
    ELSE IF b[1] = "_" THEN IntDigits(Tail(b), acc)
    ELSE IntDigits(Tail(b), acc * 10 + DigitVal[b[1]])

int(v) == LET t == strip(v) IN IntSign(t) * IntDigits(IntBody(t), 0)

\* A value of the data dictionary: an integer or a string.
IntValue(n) == [isInt |-> TRUE, n |-> n, s |-> <<>>]
StrValue(v) == [isInt |-> FALSE, n |-> 0, s |-> v]

\* mutant: the value is kept as the string it came as
convert_keep(value) == StrValue(value)

\* lines 281-285: try int(value), on ValueError keep the string
convert(value) == IF int_ok(value) THEN IntValue(int(value)) ELSE StrValue(value)

EmptyDict == [k \in {} |-> StrValue(<<>>)]
\* data[key] = value
DictSet(data, key, value) ==
    [k \in DOMAIN data \cup {key} |-> IF k = key THEN value ELSE data[k]]

\* lines 278-285: the loop over the pairs, from pair i on
RECURSIVE parse_pairs(_, _, _)
parse_pairs(pairs, i, data) ==
    IF i > Len(pairs) THEN data
    ELSE IF Contains(pairs[i], "=")
         THEN LET kv == split1(pairs[i], "=") IN
              parse_pairs(pairs, i + 1, DictSet(data, kv[1], convert(kv[2])))
         ELSE parse_pairs(pairs, i + 1, data)

Response(type, data) == [type |-> type, data |-> data]
NoResp == Response(<<"?">>, EmptyDict)

parse_response(response) ==
    IF ~Contains(response, ":")
    THEN Response(response, EmptyDict)
    ELSE LET parts == split1(response, ":") IN
         IF Len(parts) < 2 \/ parts[2] = <<>>
         THEN Response(parts[1], EmptyDict)
         ELSE Response(parts[1], parse_pairs(split(parts[2], ","), 1, EmptyDict))

\* ------------------------------------------------------- application state
InitialTargetCycles == 50
InitialCycles == 50
\* A handler run by the UI thread: the commands it passed to send_command, and
\* whether it ended by an exception (Tk reports it and goes on).
UiCall(op, sent, raised) == [op |-> op, sent |-> sent, raised |-> raised]
NoUiCall == UiCall("none", <<>>, FALSE)
Fraction(n, d) == [n |-> n, d |-> d]
\* An upload thread: where it is, and its locals file_size, the length of the file
\* it opened, bytes_sent, whether more than 5.0 s have passed since
\* last_success_time, and whether its wait on ota_ready_event was notified.
\* heard tells that an ERR line naming OTA was stored in ota_error_message (line
\* 961) while the thread was waiting, not yet notified.  notes are the progress
\* notifications the thread has made (line 716), each as <<bytes_sent, file_size>>.
Worker(at, file_size, f_len, bytes_sent, stalled, signaled) ==
    [pc |-> at, file_size |-> file_size, f_len |-> f_len, bytes_sent |-> bytes_sent,
     stalled |-> stalled, signaled |-> signaled, heard |-> FALSE, notes |-> <<>>]
NoWorker == Worker("done", 0, 0, 0, FALSE, FALSE)
Finished(msg, success) == [msg |-> msg, success |-> success]
NoFinish == Finished("", FALSE)

\* ------------------------------------------------------------------ calls
\* A call: what it is, who made it (by), the state it found (wasConnected, prevHandle, logBase: the
\* length of connLog), and the same of the call before it (before).
NoCall == [op |-> "none", by |-> "caller", port |-> None, wasConnected |-> FALSE,
           prevHandle |-> None, logBase |-> 0,
           before |-> [op |-> "none", wasConnected |-> FALSE, logBase |-> 0]]
NoRet == [op |-> "none", val |-> FALSE, raised |-> FALSE, sent |-> FALSE]
Call(op, port) ==
    [op |-> op, by |-> "caller", port |-> port, wasConnected |-> connected,
     prevHandle |-> serial_port, logBase |-> Len(connLog),
     before |-> [op |-> cur.op, wasConnected |-> cur.wasConnected, logBase |-> cur.logBase]]
\* sent: what the send made inside the call returned (connect's probe)
Return(op, val, raised, sent) == [op |-> op, val |-> val, raised |-> raised, sent |-> sent]

InitCore ==
    /\ serial_port = None
    /\ connected = FALSE
    /\ port_name = None
    /\ stop_reader = FALSE
    /\ reader_thread = None
    /\ openHandles = {}
    /\ nHandles = 0
    /\ readers = [t \in {} |-> "check"]
    /\ wire = <<>>
    /\ ret = NoRet
    /\ connLog = <<>>
    /\ uiQueue = <<>>
    /\ ota_in_progress = FALSE
    /\ ota_abort_flag = FALSE
    /\ ota_ready_event = FALSE
    /\ ota_error_message = <<>>
    /\ ota_finished = NoFinish
    /\ ota_progress = Fraction(0, 1)
    /\ workers = [w \in {} |-> NoWorker]
    /\ is_running = FALSE
    /\ is_paused = FALSE
    /\ current_cycle = IntValue(0)
    /\ infinite_cycles = FALSE

\* no button was pressed yet
InitFresh ==
    /\ pc = "idle"
    /\ cur = NoCall
    /\ ota_file_path = None
    /\ lastSend = [fn |-> "none", val |-> FALSE]
    /\ target_cycles = IntValue(InitialTargetCycles)
    /\ cycles_var = InitialCycles
    /\ ui_call = NoUiCall

Init ==
    /\ InitCore
    /\ InitFresh
    /\ callsLeft = MaxCalls
    /\ tweaksLeft = 0
    /\ linesLeft = MaxLines
    /\ rx = <<>>
    /\ resp = NoResp

\* mutant: connect opens the new port without closing the connection it has
ConnectBegin_no_close(p) ==
    /\ pc = "idle"
    /\ callsLeft > 0
    /\ nHandles < MaxHandles
    /\ callsLeft' = callsLeft - 1 /\ tweaksLeft' = tweaksLeft
    /\ cur' = Call("connect", p)
    /\ pc' = "c_open"
    /\ UNCHANGED <<appVars, btVars, linkVars, envVars, ret>>

\* connect(port), line 65: an open connection is closed first (disconnect's first
\* statement, line 101, runs in this step).
ConnectBegin(p) ==
    /\ pc = "idle"
    /\ callsLeft > 0
    /\ nHandles < MaxHandles
    /\ callsLeft' = callsLeft - 1 /\ tweaksLeft' = tweaksLeft
    /\ cur' = Call("connect", p)
    /\ IF connected
       THEN stop_reader' = TRUE /\ pc' = "d_join"
       ELSE stop_reader' = stop_reader /\ pc' = "c_open"
    /\ UNCHANGED <<appVars, serial_port, port_name, reader_thread, linkVars, envVars, ret>>

\* disconnect(), line 101.
DisconnectBegin ==
    /\ pc = "idle"
    /\ callsLeft > 0
    /\ callsLeft' = callsLeft - 1 /\ tweaksLeft' = tweaksLeft
    /\ cur' = Call("disconnect", None)
    /\ stop_reader' = TRUE
    /\ pc' = "d_join"
    /\ UNCHANGED <<appVars, serial_port, port_name, reader_thread, linkVars, envVars, ret>>

is_alive(t) == t \in DOMAIN readers /\ readers[t] # "done"

\* disconnect, lines 103-104: join(timeout=1.0) returns when the thread has ended.
DisconnectJoined ==
    /\ pc = "d_join"
    /\ ~(reader_thread # None /\ is_alive(reader_thread))
    /\ pc' = "d_close"
    /\ UNCHANGED <<appVars, btVars, linkVars, envVars, cur, ret, callsLeft, tweaksLeft>>

\* disconnect, lines 103-104: join(timeout=1.0) gives up after 1 s with the thread
\* still running.
DisconnectJoinTimeout ==
    /\ pc = "d_join"
    /\ reader_thread # None /\ is_alive(reader_thread)
    /\ pc' = "d_close"
    /\ UNCHANGED <<appVars, btVars, linkVars, envVars, cur, ret, callsLeft, tweaksLeft>>

\* mutant: the handle is dropped without being closed
DisconnectClose_skip ==
    /\ pc = "d_close"
    /\ pc' = "d_clear"
    /\ UNCHANGED <<appVars, btVars, linkVars, envVars, cur, ret, callsLeft, tweaksLeft>>

\* disconnect, lines 106-110: close the handle held; an error of close is suppressed.
DisconnectClose ==
    /\ pc = "d_close"
    /\ openHandles' = IF serial_port # None THEN openHandles \ {serial_port}
                                            ELSE openHandles
    /\ pc' = "d_clear"
    /\ UNCHANGED <<appVars, btVars, linkVars, nHandles, readers, linesLeft, cur, ret, callsLeft, tweaksLeft>>

disconnect_clear(s) == on_connection_changed([s EXCEPT !.connected = FALSE], FALSE,
                                             "disconnect")

\* disconnect, lines 112-117; then disconnect returns, to connect when connect
\* called it.
DisconnectClear ==
    /\ pc = "d_clear"
    /\ serial_port' = None
    /\ port_name' = None
    /\ SetLink(disconnect_clear(Link))
    /\ IF cur.op = "connect"
       THEN pc' = "c_open" /\ ret' = ret
       ELSE pc' = "idle" /\ ret' = Return("disconnect", TRUE, FALSE, FALSE)
    /\ UNCHANGED <<appVars, stop_reader, reader_thread, envVars, cur, callsLeft, tweaksLeft>>

\* What opening a port can do: succeed, or fail with the SerialException pyserial
\* raises for a busy port, a missing port and an OS error.
OpenOutcomes == {"ok", "SerialException"}

\* mutant: the handler catches another exception type
ConnectCatches_oserror(exc) == exc = "OSError"

\* connect's handler, line 93: except serial.SerialException.
ConnectCatches(exc) == exc = "SerialException"

\* mutant: the state is set but the notification is forgotten
connect_opened_silent(s) == [s EXCEPT !.connected = TRUE]

\* mutant: the probe is written as soon as the port is open, before the settle sleep
connect_opened_probing(s) ==
    Written(on_connection_changed([s EXCEPT !.connected = TRUE], TRUE, "connect"),
            "line", "PING", NoArg, TRUE)

\* connect, lines 69-85: the port opens; the handle and the port name are stored,
\* the reader thread is started and "connection changed: true" is notified.
connect_opened(s) == on_connection_changed([s EXCEPT !.connected = TRUE], TRUE, "connect")

ConnectOpenOk ==
    /\ pc = "c_open"
    /\ "ok" \in OpenOutcomes
    /\ LET h == nHandles + 1 IN
        /\ nHandles' = h
        /\ openHandles' = openHandles \cup {h}
        /\ serial_port' = h
        /\ port_name' = cur.port
        /\ stop_reader' = FALSE
        /\ reader_thread' = h
        /\ readers' = [t \in DOMAIN readers \cup {h} |->
                          IF t = h THEN "check" ELSE readers[t]]
    /\ SetLink(connect_opened(Link))
    /\ pc' = "c_ping"
    /\ UNCHANGED <<appVars, linesLeft, cur, ret, callsLeft, tweaksLeft>>

connect_failed(s) == [s EXCEPT !.connected = FALSE]

\* connect, lines 69 and 93-97: the open raises.
ConnectOpenFail ==
    /\ pc = "c_open"
    /\ \E exc \in OpenOutcomes \ {"ok"} :
        IF ConnectCatches(exc)
        THEN /\ SetLink(connect_failed(Link))
             /\ serial_port' = None
             /\ ret' = Return("connect", FALSE, FALSE, FALSE)
        ELSE /\ UNCHANGED <<linkVars, serial_port>>
             /\ ret' = Return("connect", FALSE, TRUE, FALSE)
    /\ pc' = "idle"
    /\ UNCHANGED <<appVars, port_name, stop_reader, reader_thread, envVars, cur, callsLeft, tweaksLeft>>

\* What connect returns after the probe, line 91.
connect_result(probeSent) == TRUE

\* connect, lines 88-91: after the settle sleep, send PING and return.  When the
\* caller is _connect_device, a True sends it on to the settings sync
\* (actuator_controller.py:576-581).
ConnectPing ==
    /\ pc = "c_ping"
    /\ \E o \in WriteOutcomes :
        LET s == send_command(Link, Cmd("PING", NoArg), o) IN
        /\ SetLink(s)
        /\ ret' = Return("connect", connect_result(s.lastSend.val), FALSE, s.lastSend.val)
        /\ pc' = IF cur.by = "connect_device" /\ connect_result(s.lastSend.val)
                 THEN "c_sync" ELSE "idle"
    /\ UNCHANGED <<appVars, btVars, envVars, cur, callsLeft, tweaksLeft>>

\* The commands and the chunk lengths the caller sends.
CallerCommands == {Cmd("STATUS", NoArg)}
CallerChunks == {512}

\* A call of send_command by the caller.
SendLine ==
    /\ pc = "idle"
    /\ callsLeft > 0
    /\ callsLeft' = callsLeft - 1 /\ tweaksLeft' = tweaksLeft
    /\ cur' = Call("send_command", None)
    /\ \E c \in CallerCommands, o \in WriteOutcomes :
        LET s == send_command(Link, c, o) IN
        /\ SetLink(s)
        /\ ret' = Return("send_command", s.lastSend.val, FALSE, s.lastSend.val)
    /\ UNCHANGED <<appVars, btVars, envVars, pc>>

\* A call of send_bytes by the caller.
SendBytes ==
    /\ pc = "idle"
    /\ callsLeft > 0
    /\ callsLeft' = callsLeft - 1 /\ tweaksLeft' = tweaksLeft
    /\ cur' = Call("send_bytes", None)
    /\ \E n \in CallerChunks, o \in WriteOutcomes :
        LET s == send_bytes(Link, n, o) IN
        /\ SetLink(s)
        /\ ret' = Return("send_bytes", s.lastSend.val, FALSE, s.lastSend.val)
    /\ UNCHANGED <<appVars, btVars, envVars, pc>>

\* -------------------------------------------------------------- _read_loop
SetReader(t, at) == readers' = [readers EXCEPT ![t] = at]

\* _read_loop, lines 154-156: the loop test and the check of the handle.
ReaderCheck(t) ==
    /\ t \in DOMAIN readers
    /\ readers[t] = "check"
    /\ IF stop_reader \/ serial_port = None \/ ~connected
       THEN SetReader(t, "done")
       ELSE SetReader(t, "poll")
    /\ UNCHANGED <<appVars, btVars, linkVars, openHandles, nHandles, linesLeft, callVars>>

\* What reading the handle held can do.  On no handle (None) the attribute access
\* raises AttributeError, an "Exception".  On a closed handle pyserial raises a
\* SerialException on one platform and a TypeError on another.  On an open handle:
\* no input, a line, an I/O fault, or an unexpected error.
ReadOutcomes ==
    IF serial_port = None THEN {"Exception"}
    ELSE IF serial_port \notin openHandles THEN {"SerialException", "Exception"}
    ELSE {"empty", "SerialException", "Exception"}
         \cup (IF linesLeft > 0 THEN {"line"} ELSE {})

\* mutant: after a read fault the loop goes back to its test
ReaderPoll_reads_on(t, lines) ==
    /\ t \in DOMAIN readers
    /\ readers[t] = "poll"
    /\ \E o \in ReadOutcomes :
        CASE o = "empty" ->
                /\ SetReader(t, "check")
                /\ UNCHANGED <<appVars, linkVars, linesLeft>>
          [] o = "line" ->
                /\ \E l \in lines :
                     SetLink(IF l # <<>> THEN on_data_received(Link, l) ELSE Link)
                /\ linesLeft' = linesLeft - 1
                /\ SetReader(t, "check")
          [] o = "SerialException" ->
                /\ SetLink(handle_disconnect(Link, "read"))
                /\ SetReader(t, "check")
                /\ UNCHANGED linesLeft
          [] o = "Exception" ->
                /\ SetReader(t, "backoff")
                /\ UNCHANGED <<appVars, linkVars, linesLeft>>
    /\ UNCHANGED <<appVars, btVars, openHandles, nHandles, callVars>>

\* mutant: an unexpected error ends the loop
ReaderPoll_dies(t, lines) ==
    /\ t \in DOMAIN readers
    /\ readers[t] = "poll"
    /\ \E o \in ReadOutcomes :
        CASE o = "empty" ->
                /\ SetReader(t, "check")
                /\ UNCHANGED <<appVars, linkVars, linesLeft>>
          [] o = "line" ->
                /\ \E l \in lines :
                     SetLink(IF l # <<>> THEN on_data_received(Link, l) ELSE Link)
                /\ linesLeft' = linesLeft - 1
                /\ SetReader(t, "check")
          [] o = "SerialException" ->
                /\ SetLink(handle_disconnect(Link, "read"))
                /\ SetReader(t, "done")
                /\ UNCHANGED linesLeft
          [] o = "Exception" ->
                /\ SetReader(t, "done")
                /\ UNCHANGED <<appVars, linkVars, linesLeft>>
    /\ UNCHANGED <<appVars, btVars, openHandles, nHandles, callVars>>

\* _read_loop, lines 158-172: one pass of the loop body.  lines: what the device
\* may send, each line as it is after decode and strip.
ReaderPoll(t, lines) ==
    /\ t \in DOMAIN readers
    /\ readers[t] = "poll"
    /\ \E o \in ReadOutcomes :
        CASE o = "empty" ->
                /\ SetReader(t, "check")
                /\ UNCHANGED <<appVars, linkVars, linesLeft>>
          [] o = "line" ->
                /\ \E l \in lines :
                     SetLink(IF l # <<>> THEN on_data_received(Link, l) ELSE Link)
                /\ linesLeft' = linesLeft - 1
                /\ SetReader(t, "check")
          [] o = "SerialException" ->
                /\ SetLink(handle_disconnect(Link, "read"))
                /\ SetReader(t, "done")
                /\ UNCHANGED linesLeft
          [] o = "Exception" ->
                /\ SetReader(t, "backoff")
                /\ UNCHANGED <<appVars, linkVars, linesLeft>>
    /\ UNCHANGED <<appVars, btVars, openHandles, nHandles, callVars>>

\* _read_loop, lines 171-172: the handler of an unexpected error prints it, sleeps
\* 0.1 s and goes back to the loop test.
ReaderBackoff(t) ==
    /\ t \in DOMAIN readers
    /\ readers[t] = "backoff"
    /\ SetReader(t, "check")
    /\ UNCHANGED <<appVars, btVars, linkVars, openHandles, nHandles, linesLeft, callVars>>

\* The runtime closes a handle that nothing refers to any more (the object's
\* finalizer), at a time of its choosing.
Finalize(h) ==
    /\ h \in openHandles
    /\ h # serial_port
    /\ openHandles' = openHandles \ {h}
    /\ UNCHANGED <<appVars, btVars, linkVars, nHandles, readers, linesLeft, callVars>>

\* ------------------------------------------------------------------ lines
L_PONG == <<"P", "O", "N", "G">>
TransportLines == {<<>>, L_PONG}

Next ==
    \/ \E p \in Ports : ConnectBegin(p)
    \/ DisconnectBegin
    \/ DisconnectJoined
    \/ DisconnectJoinTimeout
    \/ DisconnectClose
    \/ DisconnectClear
    \/ ConnectOpenOk
    \/ ConnectOpenFail
    \/ ConnectPing
    \/ SendLine
    \/ SendBytes
    \/ \E t \in HandleIds : ReaderCheck(t)
    \/ \E t \in HandleIds : ReaderPoll(t, TransportLines)
    \/ \E t \in HandleIds : ReaderBackoff(t)
    \/ \E h \in HandleIds : Finalize(h)

Spec == Init /\ [][Next]_vars

\* -------------------------------------------------------------- decoding
\* The lines of the wire protocol that the handlers name, and one with a repeated
\* key, a pair without "=", and values int() accepts or refuses.
L_STATUS_0 == <<"S", "T", "A", "T", "U", "S", ":", "S", "T", "A", "T", "E", "=", "R", "U", "N", ",", "P", "O", "S", "=", "0">>
L_STATUS_45 == <<"S", "T", "A", "T", "U", "S", ":", "S", "T", "A", "T", "E", "=", "R", "U", "N", ",", "P", "O", "S", "=", "4", "5">>
L_STATUS_90 == <<"S", "T", "A", "T", "U", "S", ":", "S", "T", "A", "T", "E", "=", "R", "U", "N", ",", "P", "O", "S", "=", "9", "0">>
L_PROGRESS == <<"P", "R", "O", "G", "R", "E", "S", "S", ":", "C", "Y", "C", "L", "E", "=", "1", "2", ",", "T", "A", "R", "G", "E", "T", "=", "5", "0">>
L_COMPLETE == <<"C", "O", "M", "P", "L", "E", "T", "E", ":", "C", "Y", "C", "L", "E", "S", "=", "3">>
L_OK_READY == <<"O", "K", ":", "O", "T", "A", "_", "R", "E", "A", "D", "Y">>
L_ERR_OTA == <<"E", "R", "R", ":", "O", "T", "A", " ", "w", "r", "i", "t", "e", " ", "f", "a", "i", "l", "e", "d">>
L_VERSION == <<"V", "E", "R", "S", "I", "O", "N", ":", "1", ".", "0", ":", "b", "=", "2">>
L_OTA_PROGRESS == <<"O", "T", "A", "_", "P", "R", "O", "G", "R", "E", "S", "S", ":", "5", "0">>
L_DUP == <<"K", ":", "a", "=", "1", ",", "b", ",", "a", "=", "x", ",", "c", "=", " ", "1", "_", "0", " ", ",", "d", "=", "1", "_", "_", "0", ",", "e", "=", "+", "7", ",", "f", "=", "-">>
NamedLines ==
    {L_PONG, L_STATUS_0, L_STATUS_45, L_STATUS_90, L_PROGRESS, L_COMPLETE, L_OK_READY,
     L_ERR_OTA, L_VERSION, L_OTA_PROGRESS, L_DUP}

\* Every line of at most MaxLineLen characters over the separators, a letter, a
\* digit and the sign.
MaxLineLen == 5
LineAlphabet == {":", ",", "=", "K", "1", "-"}
ShortLines == UNION {[1..n -> LineAlphabet] : n \in 0..MaxLineLen}

\* The response lines a device builds from a kind and integer fields:
\* K:key1=v1,key2=v2,... with every value in decimal.
MaxFields == 2
DigitChar == [d \in 0..9 |-> CHOOSE c \in DOMAIN DigitVal : DigitVal[c] = d]
RECURSIVE Decimal(_)
Decimal(n) ==
    IF n < 0 THEN <<"-">> \o Decimal(-n)
    ELSE IF n < 10 THEN <<DigitChar[n]>>
    ELSE Decimal(n \div 10) \o <<DigitChar[n % 10]>>
FieldKinds == {<<"K">>, <<"P", "R", "O", "G", "R", "E", "S", "S">>}
FieldKeys == {<<"a">>, <<"P", "O", "S">>, <<"k", ":", "x">>}
FieldValues == {-12, -1, 0, 7, 105}
\* the keys in the order they are written, and the value of each
FieldLists ==
    UNION {{f \in [1..n -> FieldKeys \X FieldValues] :
                \A i, j \in 1..n : f[i][1] = f[j][1] => i = j} : n \in 0..MaxFields}
Messages == FieldKinds \X FieldLists
RECURSIVE JoinFields(_, _)
JoinFields(f, i) ==
    IF i > Len(f) THEN <<>>
    ELSE (IF i > 1 THEN <<",">> ELSE <<>>) \o f[i][1] \o <<"=">> \o Decimal(f[i][2])
         \o JoinFields(f, i + 1)
Encoded == [m \in Messages |-> m[1] \o <<":">> \o JoinFields(m[2], 1)]
EncodedLines == {Encoded[m] : m \in Messages}

ParseInputs == ShortLines \cup NamedLines \cup EncodedLines

InitParse ==
    /\ InitCore
    /\ InitFresh
    /\ callsLeft = MaxCalls
    /\ tweaksLeft = 0
    /\ linesLeft = MaxLines
    /\ rx \in ParseInputs
    /\ resp = NoResp

\* _process_response, line 921: resp_type, resp_data = parse_response(data)
Decode ==
    /\ resp = NoResp
    /\ resp' = parse_response(rx)
    /\ UNCHANGED <<btVars, linkVars, envVars, callVars, rx, ui_call, otaVars, cycleVars>>

NextParse == Decode

SpecParse == InitParse /\ [][NextParse]_vars

\* --------------------------------------------------- the UI thread's tasks
\* The UI thread runs the tasks of uiQueue in order, one at a time, and only
\* between the calls it makes itself (pc = "idle").  The texts the handlers put
\* into widgets (status_var, ota_status_var, the terminal) are not part of the
\* state, and the tasks that only set such a text (lines 671, 672, 721) are not
\* queued; the message of _ota_finish is kept in ota_finished.
T_PONG == <<"P", "O", "N", "G">>
T_STATUS == <<"S", "T", "A", "T", "U", "S">>
T_PROGRESS == <<"P", "R", "O", "G", "R", "E", "S", "S">>
T_COMPLETE == <<"C", "O", "M", "P", "L", "E", "T", "E">>
T_OK == <<"O", "K">>
T_VERSION == <<"V", "E", "R", "S", "I", "O", "N">>
T_OTA_PROGRESS == <<"O", "T", "A", "_", "P", "R", "O", "G", "R", "E", "S", "S">>
T_ERR == <<"E", "R", "R">>
S_OTA_READY == <<"O", "T", "A", "_", "R", "E", "A", "D", "Y">>
S_OTA == <<"O", "T", "A">>
K_CYCLE == <<"C", "Y", "C", "L", "E">>
K_TARGET == <<"T", "A", "R", "G", "E", "T">>
K_CYCLES == <<"C", "Y", "C", "L", "E", "S">>

Enqueue(s, task) == [s EXCEPT !.uiQueue = Append(@, task)]
Dequeued(s) == [s EXCEPT !.uiQueue = Tail(@)]

\* mutant: ending an upload also drops the connection
ota_finish_disconnecting(s, msg, success) ==
    [s EXCEPT !.connected = FALSE,
              !.uiQueue = Append(@, Task("ota_finish", success, <<>>, msg, 0, 0))]

\* _ota_finish(message, success), line 748: update_ui is handed to the UI thread
ota_finish(s, msg, success) == Enqueue(s, Task("ota_finish", success, <<>>, msg, 0, 0))

\* mutant: only at the start of t
InStr_head(sub, t) == Len(t) >= Len(sub) /\ SubSeq(t, 1, Len(sub)) = sub

\* sub in t
InStr(sub, t) == \E i \in 0..(Len(t) - Len(sub)) : SubSeq(t, i + 1, i + Len(sub)) = sub

\* mutant: the default whatever the dictionary holds
Get_default(data, key, default) == IntValue(default)

\* resp_data.get(key, default): an integer as the number, any other value as it is
Get(data, key, default) == IF key \in DOMAIN data THEN data[key] ELSE IntValue(default)

\* _update_progress, lines 883-891: whether it raises TypeError.  In finite mode
\* it compares target_cycles with 0 and, when that is more, divides current_cycle
\* by it; a string in either place raises.
update_progress_raises(infinite, current, target) ==
    /\ ~infinite
    /\ \/ ~target.isInt
       \/ (target.n > 0 /\ ~current.isInt)

\* ota_ready_event.set(): the flag is set and the threads waiting are notified
Notified ==
    [w \in DOMAIN workers |->
        IF workers[w].pc = "waiting" THEN [workers[w] EXCEPT !.signaled = TRUE]
                                     ELSE workers[w]]

\* the upload threads after an ERR line naming OTA was stored
Heard ==
    [w \in DOMAIN workers |->
        IF workers[w].pc = "waiting" /\ ~workers[w].signaled
        THEN [workers[w] EXCEPT !.heard = TRUE]
        ELSE workers[w]]

\* mutant: a disconnect leaves the run as it is
UiConnectionChanged_keeps_run ==
    /\ pc = "idle"
    /\ uiQueue # <<>>
    /\ Head(uiQueue).kind = "conn"
    /\ SetLink(Dequeued(Link))
    /\ UNCHANGED <<btVars, envVars, callVars, rx, resp, ui_call, otaVars, cycleVars>>

\* _update_connection_ui(connected), lines 969-986
UiConnectionChanged ==
    /\ pc = "idle"
    /\ uiQueue # <<>>
    /\ Head(uiQueue).kind = "conn"
    /\ LET stop == ~Head(uiQueue).flag /\ is_running IN
        /\ is_running' = IF stop THEN FALSE ELSE is_running
        /\ is_paused' = IF stop THEN FALSE ELSE is_paused
    /\ SetLink(Dequeued(Link))
    /\ UNCHANGED <<btVars, envVars, callVars, rx, resp, ui_call, otaVars,
                   current_cycle, target_cycles, infinite_cycles, cycles_var>>

\* the fraction int(parts[1]) / 100 of an OTA_PROGRESS line, lines 950-957
OtaProgressOf(data) ==
    LET parts == split(data, ":") IN
    IF Len(parts) >= 2 /\ int_ok(parts[2]) THEN Fraction(int(parts[2]), 100)
    ELSE ota_progress

\* _process_response(data), lines 918-961.  An ERR line that names OTA is handled
\* in two steps, since the upload thread can run between the store of the message
\* (line 961) and the set of the event (line 962).  rx is the line the handler
\* shows in the terminal (line 919) and decodes.  The PROGRESS branch ends with
\* _update_progress (line 935), which can raise.
UiProcessResponse ==
    /\ pc = "idle"
    /\ uiQueue # <<>>
    /\ Head(uiQueue).kind = "data"
    /\ LET data == Head(uiQueue).line
           r == parse_response(data)
           t == r.type
           ready == t = T_OK /\ InStr(S_OTA_READY, data)
           otaErr == t = T_ERR /\ InStr(S_OTA, data)
       IN
        /\ rx' = data
        /\ resp' = r
        /\ current_cycle' = IF t = T_PROGRESS THEN Get(r.data, K_CYCLE, 0)
                                              ELSE current_cycle
        /\ target_cycles' = IF t = T_PROGRESS /\ ~infinite_cycles
                            THEN Get(r.data, K_TARGET, 0) ELSE target_cycles
        /\ is_running' = IF t = T_COMPLETE THEN FALSE ELSE is_running
        /\ is_paused' = IF t = T_COMPLETE THEN FALSE ELSE is_paused
        /\ ota_ready_event' = IF ready THEN TRUE ELSE ota_ready_event
        /\ workers' = IF ready THEN Notified ELSE IF otaErr THEN Heard ELSE workers
        /\ ota_progress' = IF t = T_OTA_PROGRESS THEN OtaProgressOf(data) ELSE ota_progress
        /\ ota_error_message' = IF otaErr THEN data ELSE ota_error_message
        /\ pc' = IF otaErr THEN "ui_err" ELSE "idle"
        /\ ui_call' = UiCall("process_response", <<>>,
                             t = T_PROGRESS
                             /\ update_progress_raises(infinite_cycles, current_cycle',
                                                       target_cycles'))
    /\ SetLink(Dequeued(Link))
    /\ UNCHANGED <<btVars, envVars, cur, ret, callsLeft, tweaksLeft, ota_file_path, ota_in_progress,
                   ota_abort_flag, ota_finished, infinite_cycles, cycles_var>>

\* _process_response, lines 962-964: the rest of the ERR branch
UiErrSignal ==
    /\ pc = "ui_err"
    /\ ota_ready_event' = TRUE
    /\ workers' = Notified
    /\ SetLink(IF ota_in_progress THEN ota_finish(Link, "OTA Error", FALSE) ELSE Link)
    /\ pc' = "idle"
    /\ UNCHANGED <<btVars, envVars, cur, ret, callsLeft, tweaksLeft, rx, resp, ui_call, ota_file_path,
                   ota_in_progress, ota_abort_flag, ota_error_message, ota_finished,
                   ota_progress, cycleVars>>

\* update_ui of _ota_finish, lines 734-746
UiOtaFinished ==
    /\ pc = "idle"
    /\ uiQueue # <<>>
    /\ Head(uiQueue).kind = "ota_finish"
    /\ ota_in_progress' = FALSE
    /\ ota_finished' = Finished(Head(uiQueue).msg, Head(uiQueue).flag)
    /\ ota_progress' = IF Head(uiQueue).flag THEN Fraction(1, 1) ELSE Fraction(0, 1)
    /\ SetLink(Dequeued(Link))
    /\ UNCHANGED <<btVars, envVars, callVars, rx, resp, ui_call, ota_file_path, ota_abort_flag,
                   ota_ready_event, ota_error_message, workers, cycleVars>>

\* _update_ota_progress(progress, bytes_sent, total), lines 728-731
UiOtaProgress ==
    /\ pc = "idle"
    /\ uiQueue # <<>>
    /\ Head(uiQueue).kind = "progress"
    /\ ota_progress' = Fraction(Head(uiQueue).a, Head(uiQueue).b)
    /\ SetLink(Dequeued(Link))
    /\ UNCHANGED <<btVars, envVars, callVars, rx, resp, ui_call, ota_file_path, ota_in_progress,
                   ota_abort_flag, ota_ready_event, ota_error_message, ota_finished,
                   workers, cycleVars>>

\* ---------------------------------------------------- the firmware tab
\* the files the user can choose, by size in bytes
FileSizes == {1000}
WorkerIds == 1..MaxStarts

\* _browse_firmware, lines 608-621: a file is chosen, or the dialog is cancelled
BrowseFirmware(f) ==
    /\ pc = "idle"
    /\ callsLeft > 0
    /\ callsLeft' = callsLeft - 1 /\ tweaksLeft' = tweaksLeft
    /\ ota_file_path' = f
    /\ UNCHANGED <<btVars, linkVars, envVars, pc, cur, ret, rx, resp, ui_call, ota_in_progress,
                   ota_abort_flag, ota_ready_event, ota_error_message, ota_finished,
                   ota_progress, workers, cycleVars>>

\* whether _start_ota_upload goes on to start an upload, lines 631-644
start_allowed(confirm) ==
    /\ is_connected(Link)
    /\ ota_file_path # None
    /\ ~ota_in_progress
    /\ confirm

\* _start_ota_upload, lines 630-653; confirm: the answer to the dialog
StartOta(confirm) ==
    /\ pc = "idle"
    /\ callsLeft > 0
    /\ Cardinality(DOMAIN workers) < MaxStarts
    /\ callsLeft' = callsLeft - 1 /\ tweaksLeft' = tweaksLeft
    /\ IF start_allowed(confirm)
       THEN /\ ota_in_progress' = TRUE
            /\ ota_abort_flag' = FALSE
            /\ ota_progress' = Fraction(0, 1)
            /\ workers' = [w \in DOMAIN workers \cup {Cardinality(DOMAIN workers) + 1} |->
                              IF w \in DOMAIN workers THEN workers[w]
                              ELSE Worker("start", 0, 0, 0, FALSE, FALSE)]
       ELSE UNCHANGED <<ota_in_progress, ota_abort_flag, ota_progress, workers>>
    /\ UNCHANGED <<btVars, linkVars, envVars, pc, cur, ret, rx, resp, ui_call, ota_file_path,
                   ota_ready_event, ota_error_message, ota_finished, cycleVars>>

\* _abort_ota_upload, lines 655-659
AbortOta ==
    /\ pc = "idle"
    /\ callsLeft > 0
    /\ callsLeft' = callsLeft - 1 /\ tweaksLeft' = tweaksLeft
    /\ IF ota_in_progress
       THEN /\ ota_abort_flag' = TRUE
            /\ \E o \in WriteOutcomes : SetLink(send_command(Link, Cmd("OTA_ABORT", NoArg), o))
       ELSE UNCHANGED <<ota_abort_flag, linkVars>>
    /\ UNCHANGED <<btVars, envVars, pc, cur, ret, rx, resp, ui_call, ota_file_path, ota_in_progress,
                   ota_ready_event, ota_error_message, ota_finished, ota_progress, workers,
                   cycleVars>>

\* ------------------------------------------------------ _ota_upload_thread
ChunkSize == 512
SetWorker(w, rec) == workers' = [workers EXCEPT ![w] = rec]
At(w, at) == w \in DOMAIN workers /\ workers[w].pc = at
Ended(w) == [workers[w] EXCEPT !.pc = "done"]
workerFrame == <<btVars, envVars, callVars, rx, resp, ui_call, cycleVars, ota_file_path,
                 ota_in_progress, ota_abort_flag, ota_finished, ota_progress>>

\* lines 663-672: the size of the file, the event and the message are cleared,
\* OTA_START is sent.  Without a file the size query raises and line 726 ends the
\* upload.
WorkerStart(w) ==
    /\ At(w, "start")
    /\ IF ota_file_path = None
       THEN /\ SetLink(ota_finish(Link, "Error", FALSE))
            /\ SetWorker(w, Ended(w))
            /\ UNCHANGED <<ota_ready_event, ota_error_message>>
       ELSE /\ ota_ready_event' = FALSE
            /\ ota_error_message' = <<>>
            /\ \E o \in WriteOutcomes :
                 SetLink(send_command(Link, Cmd("OTA_START", ota_file_path), o))
            /\ SetWorker(w, [workers[w] EXCEPT !.pc = "enter_wait",
                                               !.file_size = ota_file_path])
    /\ UNCHANGED workerFrame

\* line 674, the call of wait: it returns at once when the event is set
WorkerEnterWait(w) ==
    /\ At(w, "enter_wait")
    /\ SetWorker(w, [workers[w] EXCEPT !.pc = "waiting", !.signaled = ota_ready_event])
    /\ UNCHANGED <<workerFrame, linkVars, ota_ready_event, ota_error_message>>

\* mutant: after the timeout the upload goes on
WorkerReadyTimeout_goes_on(w) ==
    /\ At(w, "waiting")
    /\ ~workers[w].signaled
    /\ SetWorker(w, [workers[w] EXCEPT !.pc = "check", !.f_len = workers[w].file_size])
    /\ UNCHANGED <<workerFrame, linkVars, ota_ready_event, ota_error_message>>

\* lines 674-679: the wait times out after 5.0 s
WorkerReadyTimeout(w) ==
    /\ At(w, "waiting")
    /\ ~workers[w].signaled
    /\ SetLink(ota_finish(Link, IF ota_error_message # <<>> THEN "Device error"
                                ELSE "Timeout waiting for device ready", FALSE))
    /\ SetWorker(w, Ended(w))
    /\ UNCHANGED <<workerFrame, ota_ready_event, ota_error_message>>

\* lines 674 and 681-691: the wait returns True
WorkerReady(w) ==
    /\ At(w, "waiting")
    /\ workers[w].signaled
    /\ IF ota_error_message # <<>>
       THEN /\ SetWorker(w, Ended(w))
            /\ UNCHANGED linkVars
       ELSE IF ota_abort_flag
       THEN /\ SetLink(ota_finish(Link, "Aborted by user", FALSE))
            /\ SetWorker(w, Ended(w))
       ELSE IF ota_file_path = None
       THEN /\ SetLink(ota_finish(Link, "Error", FALSE))
            /\ SetWorker(w, Ended(w))
       ELSE /\ SetWorker(w, [workers[w] EXCEPT !.pc = "check", !.bytes_sent = 0,
                                               !.stalled = FALSE,
                                               !.f_len = ota_file_path])
            /\ UNCHANGED linkVars
    /\ UNCHANGED <<workerFrame, ota_ready_event, ota_error_message>>

\* mutant: the checkpoint does not look at the connection
WorkerCheck_no_link(w) ==
    /\ At(w, "check")
    /\ IF workers[w].bytes_sent >= workers[w].file_size
       THEN /\ SetWorker(w, [workers[w] EXCEPT !.pc = "verify"])
            /\ UNCHANGED linkVars
       ELSE IF ota_abort_flag
       THEN /\ SetLink(ota_finish(Link, "Aborted by user", FALSE))
            /\ SetWorker(w, Ended(w))
       ELSE IF workers[w].stalled
       THEN /\ SetLink(ota_finish(Link, "Upload timeout", FALSE))
            /\ SetWorker(w, Ended(w))
       ELSE /\ SetWorker(w, [workers[w] EXCEPT !.pc = "send"])
            /\ UNCHANGED linkVars
    /\ UNCHANGED <<workerFrame, ota_ready_event, ota_error_message>>

\* lines 692-703, and 721 when the loop ends: the loop test and the checkpoints
\* before a chunk
WorkerCheck(w) ==
    /\ At(w, "check")
    /\ IF workers[w].bytes_sent >= workers[w].file_size
       THEN /\ SetWorker(w, [workers[w] EXCEPT !.pc = "verify"])
            /\ UNCHANGED linkVars
       ELSE IF ota_abort_flag
       THEN /\ SetLink(ota_finish(Link, "Aborted by user", FALSE))
            /\ SetWorker(w, Ended(w))
       ELSE IF ~is_connected(Link)
       THEN /\ SetLink(ota_finish(Link, "Connection lost", FALSE))
            /\ SetWorker(w, Ended(w))
       ELSE IF workers[w].stalled
       THEN /\ SetLink(ota_finish(Link, "Upload timeout", FALSE))
            /\ SetWorker(w, Ended(w))
       ELSE /\ SetWorker(w, [workers[w] EXCEPT !.pc = "send"])
            /\ UNCHANGED linkVars
    /\ UNCHANGED <<workerFrame, ota_ready_event, ota_error_message>>

\* mutant: every chunk is a full one
ChunkLen_full(w) == ChunkSize

\* len(f.read(chunk_size)), line 705: what is left of the file, at most a chunk
ChunkLen(w) ==
    IF workers[w].f_len - workers[w].bytes_sent < ChunkSize
    THEN (IF workers[w].f_len > workers[w].bytes_sent
          THEN workers[w].f_len - workers[w].bytes_sent ELSE 0)
    ELSE ChunkSize

\* mutant: a chunk sent does not restart the stall timer
WorkerSend_keeps_timer(w) ==
    /\ At(w, "send")
    /\ IF ChunkLen(w) = 0
       THEN /\ SetWorker(w, [workers[w] EXCEPT !.pc = "verify"])
            /\ UNCHANGED linkVars
       ELSE \E o \in WriteOutcomes :
            LET s1 == send_bytes(Link, ChunkLen(w), o)
                sent == workers[w].bytes_sent + ChunkLen(w)
            IN  IF s1.lastSend.val
                THEN /\ SetLink(Enqueue(s1, Task("progress", FALSE, <<>>, "", sent,
                                                 workers[w].file_size)))
                     /\ SetWorker(w, [workers[w] EXCEPT !.pc = "check",
                                                        !.bytes_sent = sent,
                                                        !.notes = Append(@, <<sent, workers[w].file_size>>)])
                ELSE /\ SetLink(ota_finish(s1, "Failed to send data", FALSE))
                     /\ SetWorker(w, Ended(w))
    /\ UNCHANGED <<workerFrame, ota_ready_event, ota_error_message>>

\* lines 705-719: read a chunk and send it
WorkerSend(w) ==
    /\ At(w, "send")
    /\ IF ChunkLen(w) = 0
       THEN /\ SetWorker(w, [workers[w] EXCEPT !.pc = "verify"])
            /\ UNCHANGED linkVars
       ELSE \E o \in WriteOutcomes :
            LET s1 == send_bytes(Link, ChunkLen(w), o)
                sent == workers[w].bytes_sent + ChunkLen(w)
            IN  IF s1.lastSend.val
                THEN /\ SetLink(Enqueue(s1, Task("progress", FALSE, <<>>, "", sent,
                                                 workers[w].file_size)))
                     /\ SetWorker(w, [workers[w] EXCEPT !.pc = "check",
                                                        !.bytes_sent = sent,
                                                        !.stalled = FALSE,
                                                        !.notes = Append(@, <<sent, workers[w].file_size>>)])
                ELSE /\ SetLink(ota_finish(s1, "Failed to send data", FALSE))
                     /\ SetWorker(w, Ended(w))
    /\ UNCHANGED <<workerFrame, ota_ready_event, ota_error_message>>

\* lines 722-723: after the settle sleep the upload is declared complete
WorkerVerify(w) ==
    /\ At(w, "verify")
    /\ SetLink(ota_finish(Link, "Upload complete - device restarting", TRUE))
    /\ SetWorker(w, Ended(w))
    /\ UNCHANGED <<workerFrame, ota_ready_event, ota_error_message>>

\* line 701: more than 5.0 s pass since last_success_time
WorkerStall(w) ==
    /\ w \in DOMAIN workers
    /\ workers[w].pc \in {"check", "send"}
    /\ ~workers[w].stalled
    /\ SetWorker(w, [workers[w] EXCEPT !.stalled = TRUE])
    /\ UNCHANGED <<workerFrame, linkVars, ota_ready_event, ota_error_message>>

\* what the device sends during an upload
OtaLines == {L_OK_READY, L_ERR_OTA}

\* The runs with uploads have one connection: the user connects while no port was
\* opened yet and does not disconnect; the connection is lost by faults only.
ConnectOnce(p) == nHandles = 0 /\ ConnectBegin(p)

NextOta ==
    \/ \E p \in Ports : ConnectOnce(p)
    \/ ConnectOpenOk
    \/ ConnectOpenFail
    \/ ConnectPing
    \/ \E t \in HandleIds : ReaderCheck(t)
    \/ \E t \in HandleIds : ReaderPoll(t, OtaLines)
    \/ \E t \in HandleIds : ReaderBackoff(t)
    \/ UiConnectionChanged
    \/ UiProcessResponse
    \/ UiErrSignal
    \/ UiOtaFinished
    \/ UiOtaProgress
    \/ \E f \in FileSizes \cup {None} : BrowseFirmware(f)
    \/ \E c \in BOOLEAN : StartOta(c)
    \/ AbortOta
    \/ \E w \in WorkerIds : WorkerStart(w)
    \/ \E w \in WorkerIds : WorkerEnterWait(w)
    \/ \E w \in WorkerIds : WorkerReadyTimeout(w)
    \/ \E w \in WorkerIds : WorkerReady(w)
    \/ \E w \in WorkerIds : WorkerCheck(w)
    \/ \E w \in WorkerIds : WorkerSend(w)
    \/ \E w \in WorkerIds : WorkerVerify(w)
    \/ \E w \in WorkerIds : WorkerStall(w)

InitOta ==
    /\ InitCore
    /\ InitFresh
    /\ callsLeft = MaxOtaCalls
    /\ tweaksLeft = 0
    /\ linesLeft = MaxOtaLines
    /\ rx = <<>>
    /\ resp = NoResp

SpecOta == InitOta /\ [][NextOta]_vars

\* ------------------------------------------------------- the control tab
\* Several calls of send_command in a row; failAt: the place of the write that
\* faults, 0 when none does.  After a fault the state is Disconnected and the
\* later calls return False without a write.
RECURSIVE send_commands(_, _, _)
send_commands(s, cmds, failAt) ==
    IF cmds = <<>> THEN s
    ELSE send_commands(send_command(s, Head(cmds), IF failAt = 1 THEN "fault" ELSE "ok"),
                       Tail(cmds), failAt - 1)
FailAts(n) == IF serial_port \in openHandles THEN 0..n ELSE {1}

\* CommandProtocol.set_cycles(count), lines 216-218
set_cycles(count) == Cmd("SET_CYCLES", count)

MinCycles == 1
MaxCycles == 100000
\* mutant: the upper limit is not applied
adjusted_no_max(current, delta) ==
    IF current + delta < MinCycles THEN MinCycles ELSE current + delta

\* line 803: max(1, min(100000, current + delta))
adjusted(current, delta) ==
    LET low == IF current + delta < MaxCycles THEN current + delta ELSE MaxCycles
    IN  IF low > MinCycles THEN low ELSE MinCycles

\* the "-" and "+" buttons, lines 226-235
CycleDeltas == {-10, 10}

\* _adjust_cycles(delta), lines 801-807
AdjustCycles(delta) ==
    /\ pc = "idle"
    /\ tweaksLeft > 0
    /\ tweaksLeft' = tweaksLeft - 1 /\ callsLeft' = callsLeft
    /\ LET new_val == adjusted(cycles_var, delta) IN
        /\ cycles_var' = new_val
        /\ target_cycles' = IntValue(new_val)
        /\ \E o \in WriteOutcomes : SetLink(send_command(Link, set_cycles(new_val), o))
        /\ ui_call' = UiCall("adjust_cycles", <<set_cycles(new_val)>>,
                             update_progress_raises(infinite_cycles, current_cycle,
                                                    IntValue(new_val)))
    /\ UNCHANGED <<btVars, envVars, pc, cur, ret, rx, resp, otaVars, is_running, is_paused,
                   current_cycle, infinite_cycles>>

\* the checkbox of infinite_cycles and its command _on_infinite_changed,
\* lines 237-238 and 809-814
InfiniteChanged ==
    /\ pc = "idle"
    /\ tweaksLeft > 0
    /\ tweaksLeft' = tweaksLeft - 1 /\ callsLeft' = callsLeft
    /\ infinite_cycles' = ~infinite_cycles
    /\ ui_call' = UiCall("infinite_changed", <<>>,
                         update_progress_raises(~infinite_cycles, current_cycle,
                                                target_cycles))
    /\ UNCHANGED <<btVars, linkVars, envVars, pc, cur, ret, rx, resp, otaVars, is_running,
                   is_paused, current_cycle, target_cycles, cycles_var>>

\* mutant: the start keeps the cycle count of the run before
StartCycles_no_reset ==
    /\ pc = "idle"
    /\ callsLeft > 0
    /\ ~is_running
    /\ callsLeft' = callsLeft - 1 /\ tweaksLeft' = tweaksLeft
    /\ IF ~is_connected(Link)
       THEN /\ ui_call' = UiCall("start_cycles", <<>>, FALSE)
            /\ UNCHANGED <<linkVars, is_running, is_paused, current_cycle, target_cycles>>
       ELSE LET n == IF infinite_cycles THEN 0 ELSE cycles_var
                cmds == <<set_cycles(n), Cmd("START", NoArg)>>
            IN  /\ current_cycle' = current_cycle
                /\ target_cycles' = IF infinite_cycles THEN target_cycles ELSE IntValue(n)
                /\ \E k \in FailAts(2) : SetLink(send_commands(Link, cmds, k))
                /\ is_running' = TRUE
                /\ is_paused' = FALSE
                /\ ui_call' = UiCall("start_cycles", cmds, FALSE)
    /\ UNCHANGED <<btVars, envVars, pc, cur, ret, rx, resp, otaVars, infinite_cycles,
                   cycles_var>>

\* _start_cycles, lines 837-856.  The START button is enabled while is_running is
\* False (_update_button_states, lines 893-912).  _update_progress (line 850)
\* finds current_cycle 0 and does not raise.
StartCycles ==
    /\ pc = "idle"
    /\ callsLeft > 0
    /\ ~is_running
    /\ callsLeft' = callsLeft - 1 /\ tweaksLeft' = tweaksLeft
    /\ IF ~is_connected(Link)
       THEN /\ ui_call' = UiCall("start_cycles", <<>>, FALSE)
            /\ UNCHANGED <<linkVars, is_running, is_paused, current_cycle, target_cycles>>
       ELSE LET n == IF infinite_cycles THEN 0 ELSE cycles_var
                cmds == <<set_cycles(n), Cmd("START", NoArg)>>
            IN  /\ current_cycle' = IntValue(0)
                /\ target_cycles' = IF infinite_cycles THEN target_cycles ELSE IntValue(n)
                /\ \E k \in FailAts(2) : SetLink(send_commands(Link, cmds, k))
                /\ is_running' = TRUE
                /\ is_paused' = FALSE
                /\ ui_call' = UiCall("start_cycles", cmds, FALSE)
    /\ UNCHANGED <<btVars, envVars, pc, cur, ret, rx, resp, otaVars, infinite_cycles,
                   cycles_var>>

\* mutant: the PAUSE button is enabled all the time
PauseCycles_any_time ==
    /\ pc = "idle"
    /\ callsLeft > 0
    /\ callsLeft' = callsLeft - 1 /\ tweaksLeft' = tweaksLeft
    /\ IF ~is_connected(Link)
       THEN /\ ui_call' = UiCall("pause_cycles", <<>>, FALSE)
            /\ UNCHANGED <<linkVars, is_paused>>
       ELSE LET cmd == IF is_paused THEN Cmd("RESUME", NoArg) ELSE Cmd("PAUSE", NoArg) IN
            /\ \E o \in WriteOutcomes : SetLink(send_command(Link, cmd, o))
            /\ is_paused' = ~is_paused
            /\ ui_call' = UiCall("pause_cycles", <<cmd>>, FALSE)
    /\ UNCHANGED <<btVars, envVars, pc, cur, ret, rx, resp, otaVars, is_running,
                   current_cycle, target_cycles, infinite_cycles, cycles_var>>

\* mutant: the button always pauses
PauseCycles_no_resume ==
    /\ pc = "idle"
    /\ callsLeft > 0
    /\ is_running
    /\ callsLeft' = callsLeft - 1 /\ tweaksLeft' = tweaksLeft
    /\ IF ~is_connected(Link)
       THEN /\ ui_call' = UiCall("pause_cycles", <<>>, FALSE)
            /\ UNCHANGED <<linkVars, is_paused>>
       ELSE LET cmd == Cmd("PAUSE", NoArg) IN
            /\ \E o \in WriteOutcomes : SetLink(send_command(Link, cmd, o))
            /\ is_paused' = TRUE
            /\ ui_call' = UiCall("pause_cycles", <<cmd>>, FALSE)
    /\ UNCHANGED <<btVars, envVars, pc, cur, ret, rx, resp, otaVars, is_running,
                   current_cycle, target_cycles, infinite_cycles, cycles_var>>

\* _pause_cycles, lines 858-871.  The PAUSE button is enabled while is_running is
\* True.
PauseCycles ==
    /\ pc = "idle"
    /\ callsLeft > 0
    /\ is_running
    /\ callsLeft' = callsLeft - 1 /\ tweaksLeft' = tweaksLeft
    /\ IF ~is_connected(Link)
       THEN /\ ui_call' = UiCall("pause_cycles", <<>>, FALSE)
            /\ UNCHANGED <<linkVars, is_paused>>
       ELSE LET cmd == IF is_paused THEN Cmd("RESUME", NoArg) ELSE Cmd("PAUSE", NoArg) IN
            /\ \E o \in WriteOutcomes : SetLink(send_command(Link, cmd, o))
            /\ is_paused' = ~is_paused
            /\ ui_call' = UiCall("pause_cycles", <<cmd>>, FALSE)
    /\ UNCHANGED <<btVars, envVars, pc, cur, ret, rx, resp, otaVars, is_running,
                   current_cycle, target_cycles, infinite_cycles, cycles_var>>

\* mutant: the stop leaves the paused flag as it is
StopCycles_keeps_paused ==
    /\ pc = "idle"
    /\ callsLeft > 0
    /\ is_running
    /\ callsLeft' = callsLeft - 1 /\ tweaksLeft' = tweaksLeft
    /\ IF ~is_connected(Link)
       THEN /\ ui_call' = UiCall("stop_cycles", <<>>, FALSE)
            /\ UNCHANGED <<linkVars, is_running, is_paused>>
       ELSE LET cmd == Cmd("STOP", NoArg) IN
            /\ \E o \in WriteOutcomes : SetLink(send_command(Link, cmd, o))
            /\ is_running' = FALSE
            /\ is_paused' = is_paused
            /\ ui_call' = UiCall("stop_cycles", <<cmd>>, FALSE)
    /\ UNCHANGED <<btVars, envVars, pc, cur, ret, rx, resp, otaVars, current_cycle,
                   target_cycles, infinite_cycles, cycles_var>>

\* _stop_cycles, lines 873-881.  The STOP button is enabled while is_running is
\* True.
StopCycles ==
    /\ pc = "idle"
    /\ callsLeft > 0
    /\ is_running
    /\ callsLeft' = callsLeft - 1 /\ tweaksLeft' = tweaksLeft
    /\ IF ~is_connected(Link)
       THEN /\ ui_call' = UiCall("stop_cycles", <<>>, FALSE)
            /\ UNCHANGED <<linkVars, is_running, is_paused>>
       ELSE LET cmd == Cmd("STOP", NoArg) IN
            /\ \E o \in WriteOutcomes : SetLink(send_command(Link, cmd, o))
            /\ is_running' = FALSE
            /\ is_paused' = FALSE
            /\ ui_call' = UiCall("stop_cycles", <<cmd>>, FALSE)
    /\ UNCHANGED <<btVars, envVars, pc, cur, ret, rx, resp, otaVars, current_cycle,
                   target_cycles, infinite_cycles, cycles_var>>

\* SettingsManager.DEFAULT_SETTINGS, settings_manager.py:12-19
DefaultSettings ==
    [actuator_type |-> 6700, extend_offset |-> 0, retract_offset |-> 0,
     dwell_extend_ms |-> 2200, dwell_retract_ms |-> 2200, speed_percent |-> 100]

\* the commands of _sync_settings_to_esp32, lines 1032-1042
sync_commands ==
    <<Cmd("SET_TYPE", DefaultSettings.actuator_type),
      Cmd("SET_EXTEND", DefaultSettings.extend_offset),
      Cmd("SET_RETRACT", DefaultSettings.retract_offset),
      Cmd("SET_DWELL_EXT", DefaultSettings.dwell_extend_ms),
      Cmd("SET_DWELL_RET", DefaultSettings.dwell_retract_ms),
      Cmd("SET_SPEED", DefaultSettings.speed_percent),
      set_cycles(IF infinite_cycles THEN 0 ELSE cycles_var)>>

\* _sync_settings_to_esp32, lines 1028-1042, called by _connect_device after
\* connect returned True (line 581).
SyncSettings ==
    /\ pc = "c_sync"
    /\ pc' = "idle"
    /\ IF ~is_connected(Link)
       THEN /\ ui_call' = UiCall("sync_settings", <<>>, FALSE)
            /\ UNCHANGED linkVars
       ELSE /\ \E k \in FailAts(Len(sync_commands)) :
                SetLink(send_commands(Link, sync_commands, k))
            /\ ui_call' = UiCall("sync_settings", sync_commands, FALSE)
    /\ UNCHANGED <<btVars, envVars, cur, ret, callsLeft, tweaksLeft, rx, resp, otaVars, cycleVars>>

\* ------------------------------------------------------ runs with cycles
\* presses of START, PAUSE and STOP in one run with cycles
MaxCycleCalls == 3
\* presses of "-", "+" and the infinite checkbox in one run with cycles
MaxTweaks == 1
\* lines the device sends in one run with cycles
MaxCycleLines == 1

\* What the device sends during a run: progress, progress of a run without a
\* target, a target that is no number, the end of the run, and a line of a kind
\* the application does not know.
L_PROGRESS_INF == <<"P", "R", "O", "G", "R", "E", "S", "S", ":", "C", "Y", "C", "L", "E", "=", "3", ",", "T", "A", "R", "G", "E", "T", "=", "0">>
L_PROGRESS_BAD == <<"P", "R", "O", "G", "R", "E", "S", "S", ":", "T", "A", "R", "G", "E", "T", "=", "x">>
L_HELLO == <<"H", "E", "L", "L", "O", ":", "a", ",", "b", "=", "1">>
CycleLines == {L_PROGRESS, L_PROGRESS_INF, L_PROGRESS_BAD, L_COMPLETE, L_HELLO}

\* The cycles label at the start of a run: as constructed, or where presses of
\* "-" and "+" made before the run have left it, one step from either limit.
LateCycles == {10, 99991}

\* the state after _adjust_cycles set the label to c while not connected
InitAdjusted(c) ==
    /\ lastSend = [fn |-> "send_command", val |-> FALSE]
    /\ target_cycles = IntValue(c)
    /\ cycles_var = c
    /\ ui_call = UiCall("adjust_cycles", <<set_cycles(c)>>, FALSE)

\* the label as constructed, line 229 (target_cycles is 50 as well, line 45)
InitLabel ==
    /\ lastSend = [fn |-> "none", val |-> FALSE]
    /\ target_cycles = IntValue(InitialTargetCycles)
    /\ cycles_var = InitialCycles
    /\ ui_call = NoUiCall

\* A run with cycles begins with the connection: _connect_device (lines 562-584)
\* has called connect, which is about to open the port.  The buttons of the
\* control tab are pressed after it has returned, connected or not.
InitCycle ==
    /\ InitCore
    /\ InitLabel \/ \E c \in LateCycles : InitAdjusted(c)
    /\ pc = "c_open"
    /\ \E p \in Ports : cur = [NoCall EXCEPT !.op = "connect", !.by = "connect_device", !.port = p]
    /\ ota_file_path = None
    /\ callsLeft = MaxCycleCalls
    /\ tweaksLeft = MaxTweaks
    /\ linesLeft = MaxCycleLines
    /\ rx = <<>>
    /\ resp = NoResp

NextCycle ==
    \/ ConnectOpenOk
    \/ ConnectOpenFail
    \/ ConnectPing
    \/ SyncSettings
    \/ \E t \in HandleIds : ReaderCheck(t)
    \/ \E t \in HandleIds : ReaderPoll(t, CycleLines)
    \/ \E t \in HandleIds : ReaderBackoff(t)
    \/ UiConnectionChanged
    \/ UiProcessResponse
    \/ \E d \in CycleDeltas : AdjustCycles(d)
    \/ InfiniteChanged
    \/ StartCycles
    \/ PauseCycles
    \/ StopCycles

SpecCycle == InitCycle /\ [][NextCycle]_vars

\* ------------------------------------------------------ runs of one upload
\* presses of Upload and Abort in a run
MaxUploadCalls == 2
\* lines the device sends in a run
MaxUploadLines == 1
\* the firmware files, by size in bytes: less than a chunk, a whole number of
\* chunks, and chunks with a shorter last one
UploadFiles == {1000, 2048}

\* The file was chosen with _browse_firmware (lines 608-621) and is not changed;
\* _connect_device (lines 562-584) has called connect, which is about to open the
\* port.
InitUpload ==
    /\ InitCore
    /\ InitLabel
    /\ pc = "c_open"
    /\ \E p \in Ports : cur = [NoCall EXCEPT !.op = "connect", !.by = "connect_device", !.port = p]
    /\ ota_file_path \in UploadFiles
    /\ callsLeft = MaxUploadCalls
    /\ tweaksLeft = 0
    /\ linesLeft = MaxUploadLines
    /\ rx = <<>>
    /\ resp = NoResp

NextUpload ==
    \/ ConnectOpenOk
    \/ ConnectOpenFail
    \/ ConnectPing
    \/ SyncSettings
    \/ \E t \in HandleIds : ReaderCheck(t)
    \/ \E t \in HandleIds : ReaderPoll(t, OtaLines)
    \/ \E t \in HandleIds : ReaderBackoff(t)
    \/ UiConnectionChanged
    \/ UiProcessResponse
    \/ UiErrSignal
    \/ UiOtaFinished
    \/ UiOtaProgress
    \/ \E c \in BOOLEAN : StartOta(c)
    \/ AbortOta
    \/ \E w \in WorkerIds : WorkerStart(w)
    \/ \E w \in WorkerIds : WorkerEnterWait(w)
    \/ \E w \in WorkerIds : WorkerReadyTimeout(w)
    \/ \E w \in WorkerIds : WorkerReady(w)
    \/ \E w \in WorkerIds : WorkerCheck(w)
    \/ \E w \in WorkerIds : WorkerSend(w)
    \/ \E w \in WorkerIds : WorkerVerify(w)
    \/ \E w \in WorkerIds : WorkerStall(w)

SpecUpload == InitUpload /\ [][NextUpload]_vars

\* ------------------------------------------------ runs with answers of the device
\* lines the device sends in a run
MaxReadyLines == 1

\* Answers with and without OTA_READY: the kind OK or another, the word as a whole
\* line, as a key, as a value, inside a value, after other pairs, cut short, in
\* lower case, and before the colon.
R_PLAIN == <<"O", "K">>
R_EMPTY == <<"O", "K", ":">>
R_VALUE == <<"O", "K", ":", "S", "T", "A", "T", "E", "=", "O", "T", "A", "_", "R", "E", "A", "D", "Y">>
R_KEY == <<"O", "K", ":", "O", "T", "A", "_", "R", "E", "A", "D", "Y", "=", "1">>
R_INSIDE == <<"O", "K", ":", "x", "O", "T", "A", "_", "R", "E", "A", "D", "Y", "x">>
R_LATER == <<"O", "K", ":", "a", "=", "1", ",", "O", "T", "A", "_", "R", "E", "A", "D", "Y">>
R_CUT == <<"O", "K", ":", "O", "T", "A", "_", "R", "E", "A", "D">>
R_LOWER == <<"O", "K", ":", "o", "t", "a", "_", "r", "e", "a", "d", "y">>
R_SPACE == <<"O", "K", " ", "O", "T", "A", "_", "R", "E", "A", "D", "Y">>
R_BARE == <<"O", "T", "A", "_", "R", "E", "A", "D", "Y">>
R_OTHER == <<"D", "O", "N", "E", ":", "O", "T", "A", "_", "R", "E", "A", "D", "Y">>
R_TAIL == <<"O", "T", "A", "_", "R", "E", "A", "D", "Y", ":", "O", "K">>
ReadyLines ==
    {L_OK_READY, L_ERR_OTA, R_PLAIN, R_EMPTY, R_VALUE, R_KEY, R_INSIDE,
     R_LATER, R_CUT, R_LOWER, R_SPACE, R_BARE, R_OTHER, R_TAIL}

\* _connect_device (lines 562-584) has called connect, which is about to open the
\* port; no button is pressed afterwards.
InitReady ==
    /\ InitCore
    /\ InitLabel
    /\ pc = "c_open"
    /\ \E p \in Ports : cur = [NoCall EXCEPT !.op = "connect", !.by = "connect_device", !.port = p]
    /\ ota_file_path = None
    /\ callsLeft = 0
    /\ tweaksLeft = 0
    /\ linesLeft = MaxReadyLines
    /\ rx = <<>>
    /\ resp = NoResp

NextReady ==
    \/ ConnectOpenOk
    \/ ConnectOpenFail
    \/ ConnectPing
    \/ SyncSettings
    \/ \E t \in HandleIds : ReaderCheck(t)
    \/ \E t \in HandleIds : ReaderPoll(t, ReadyLines)
    \/ \E t \in HandleIds : ReaderBackoff(t)
    \/ UiConnectionChanged
    \/ UiProcessResponse
    \/ UiErrSignal

SpecReady == InitReady /\ [][NextReady]_vars

\* ============================================================ properties
LastOf(q) == q[Len(q)]

\* "connection changed: false" notifications that disconnect fired after the
\* first `base` entries of the log
DisconnectNotes(base) ==
    Cardinality({i \in (base + 1)..Len(connLog) :
                    connLog[i] = [val |-> FALSE, src |-> "disconnect"]})

\* C1: two calls of disconnect in succession, the first from Connected and no call
\* between them, fire exactly one "connection changed: false" between them, and
\* raise no error.
C1_DisconnectTwiceNotifiesOnce ==
    (pc = "idle" /\ cur.op = "disconnect" /\ cur.before.op = "disconnect"
        /\ cur.before.wasConnected)
    => (DisconnectNotes(cur.before.logBase) = 1 /\ ~ret.raised)

\* C2: at most one handle opened by the controller is open at a time.
C2_AtMostOneOpenHandle == Cardinality(openHandles) <= 1

\* the upload threads that have not ended
RunningWorkers == {w \in DOMAIN workers : workers[w].pc # "done"}

\* C3: at most one OTA upload worker is running at any time: a start request made
\* while the worker of an earlier upload has not ended starts no second worker.
C3_AtMostOneUploadWorker == Cardinality(RunningWorkers) <= 1

\* two upload threads are both in the chunk loop
C3_TwoWorkersTransfer ==
    \E v, w \in DOMAIN workers :
        v # w /\ workers[v].pc \in {"check", "send"} /\ workers[w].pc \in {"check", "send"}

\* C4: a write that faults makes the send return failure, sets the state to
\* Disconnected and fires one "connection changed: false"; and the state turns
\* Connected again only inside a call of connect.
C4_WriteFaultDisconnects ==
    [][/\ (Len(wire') = Len(wire) + 1 /\ ~LastOf(wire').ok)
            => /\ lastSend'.val = FALSE
               /\ ~connected'
               /\ connLog' = Append(connLog, [val |-> FALSE, src |-> "write"])
               /\ (pc = "idle" => (ret'.op = lastSend'.fn /\ ~ret'.val /\ ~ret'.raised))
       /\ (~connected /\ connected') => (cur.op = "connect" /\ pc = "c_open")
      ]_vars

C4_Witness ==
    /\ pc = "idle" /\ ret.op = "send_bytes" /\ ~ret.val
    /\ wire # <<>> /\ ~LastOf(wire).ok /\ LastOf(wire).kind = "bytes"
    /\ connLog # <<>> /\ LastOf(connLog).src = "write"
    /\ ~connected

\* C5: when the open fails, connect returns failure without raising, the state is
\* Disconnected, no handle is held, no reader thread was started and nothing was
\* notified.
C5_OpenFailureIsContained ==
    [][(pc = "c_open" /\ pc' = "idle")
        => /\ ret' = Return("connect", FALSE, FALSE, FALSE)
           /\ ~connected'
           /\ serial_port' = None
           /\ readers' = readers /\ reader_thread' = reader_thread
           /\ connLog' = connLog
           /\ openHandles' = openHandles
      ]_vars

C5_Witness ==
    /\ pc = "idle" /\ cur.op = "connect" /\ ret.op = "connect" /\ ~ret.val
    /\ cur.wasConnected

\* C6: when connect returns, it returns success only if the send of the PING probe
\* succeeded; if the probe failed, connect does not return success and the state
\* is Disconnected.
C6_ConnectedOnlyWhenVerified ==
    (pc = "idle" /\ cur.op = "connect" /\ ret.op = "connect")
    => /\ ret.val => ret.sent
       /\ ~ret.sent => (~ret.val /\ ~connected)

\* C7: when connect finds the connection open, then before it opens the new port
\* the stop signal is set, the earlier handle is closed and released, and
\* disconnect has fired "connection changed: false".
C7_ConnectClosesEarlierFirst ==
    (pc = "c_open" /\ cur.wasConnected)
    => /\ stop_reader
       /\ cur.prevHandle \notin openHandles
       /\ serial_port = None
       /\ ~connected
       /\ DisconnectNotes(cur.logBase) = 1

C7_Witness == pc = "c_open" /\ cur.wasConnected /\ cur.prevHandle # None

\* C8: once disconnect has returned, whatever state it found, the stop signal is
\* set, the handle it found is closed, no handle and no port name is held, and
\* the state is Disconnected.
C8_DisconnectPostcondition ==
    (pc = "idle" /\ cur.op = "disconnect")
    => /\ ret.op = "disconnect" /\ ~ret.raised
       /\ stop_reader
       /\ cur.prevHandle \notin openHandles
       /\ serial_port = None
       /\ port_name = None
       /\ ~connected
       /\ ~is_connected(Link)

\* disconnect returned after it found the state left by a fault: Disconnected with
\* the handle still held
C8_Witness ==
    /\ pc = "idle" /\ cur.op = "disconnect"
    /\ ~cur.wasConnected /\ cur.prevHandle # None

\* C9: every change of the connection state fires a "connection changed"
\* notification that carries the new state.
C9_TransitionsNotify ==
    [][connected' # connected
        => /\ Len(connLog') = Len(connLog) + 1
           /\ LastOf(connLog').val = connected'
           /\ Len(uiQueue') = Len(uiQueue) + 1
           /\ LastOf(uiQueue') = Task("conn", connected', <<>>, "", 0, 0)
      ]_vars

\* the state fell to Disconnected on a read fault and the notification is logged
C9_Witness ==
    /\ ~connected /\ connLog # <<>>
    /\ LastOf(connLog) = [val |-> FALSE, src |-> "read"]

\* C10: parse_response against the decoder the specification describes.  A line
\* without ":" is its own kind, with no data.  Otherwise the kind is what stands
\* before the first ":" and the rest is cut at every ","; a piece with "=" gives
\* the key before its first "=" the value after it, an integer when int() takes it
\* and the string otherwise (a key given twice keeps its last value); a piece
\* without "=" gives nothing.
FirstAt(s, c) == CHOOSE i \in 1..Len(s) : s[i] = c /\ \A j \in 1..(i - 1) : s[j] # c
RefKind(l) == IF \A i \in 1..Len(l) : l[i] # ":" THEN l ELSE SubSeq(l, 1, FirstAt(l, ":") - 1)
RefRest(l) ==
    IF \A i \in 1..Len(l) : l[i] # ":" THEN <<>>
    ELSE SubSeq(l, FirstAt(l, ":") + 1, Len(l))
\* the pieces of r between commas, each as its first and last place
RefPieces(r) ==
    {p \in (1..(Len(r) + 1)) \X (0..Len(r)) :
        /\ p[2] >= p[1] - 1
        /\ (p[1] = 1 \/ r[p[1] - 1] = ",")
        /\ (p[2] = Len(r) \/ r[p[2] + 1] = ",")
        /\ \A k \in p[1]..p[2] : r[k] # ","}
RefPairs(r) == {p \in RefPieces(r) : \E k \in p[1]..p[2] : r[k] = "="}
RefKey(r, p) == LET t == SubSeq(r, p[1], p[2]) IN SubSeq(t, 1, FirstAt(t, "=") - 1)
RefVal(r, p) == LET t == SubSeq(r, p[1], p[2]) IN SubSeq(t, FirstAt(t, "=") + 1, Len(t))
RefData(l) ==
    LET r == RefRest(l)
        P == IF r = <<>> THEN {} ELSE RefPairs(r)
    IN  [k \in {RefKey(r, p) : p \in P} |->
            LET last == CHOOSE p \in P :
                            /\ RefKey(r, p) = k
                            /\ \A q \in P : RefKey(r, q) = k => q[1] <= p[1]
                v == RefVal(r, last)
            IN  IF int_ok(v) THEN IntValue(int(v)) ELSE StrValue(v)]

K_STATE == <<"S", "T", "A", "T", "E">>
K_POS == <<"P", "O", "S">>
V_RUN == <<"R", "U", "N">>
StatusData(a) ==
    [k \in {K_STATE, K_POS} |-> IF k = K_STATE THEN StrValue(V_RUN) ELSE IntValue(a)]

C10_ParseMatchesReference ==
    resp # NoResp
    => /\ resp.type = RefKind(rx)
       /\ DOMAIN resp.data = DOMAIN RefData(rx)
       /\ \A k \in DOMAIN resp.data : resp.data[k] = RefData(rx)[k]
       /\ rx = L_PONG => (resp.type = L_PONG /\ DOMAIN resp.data = {})
       /\ rx = L_STATUS_0 => resp.data = StatusData(0)
       /\ rx = L_STATUS_45 => resp.data = StatusData(45)
       /\ rx = L_STATUS_90 => resp.data = StatusData(90)
       /\ rx = L_VERSION => resp.data = [k \in {<<"1", ".", "0", ":", "b">>} |-> IntValue(2)]

\* a line with a colon inside a value, decoded
C10_Witness ==
    /\ rx = <<"K", ":", "K", "=", ":">>
    /\ resp.type = <<"K">>
    /\ DOMAIN resp.data = {<<"K">>}
    /\ resp.data[<<"K">>] = StrValue(<<":">>)

\* the fields of message m as a data dictionary of integers
FieldData(m) ==
    [k \in {m[2][i][1] : i \in 1..Len(m[2])} |->
        IntValue(m[2][CHOOSE i \in 1..Len(m[2]) : m[2][i][1] = k][2])]

\* C11: round trip: decoding the line built as K:key1=v1,key2=v2,... from a kind
\* and integer-valued fields gives back the kind and the fields, every value as
\* an integer.
C11_RoundTrip ==
    (resp # NoResp /\ rx \in EncodedLines)
    => \A m \in Messages :
          rx = Encoded[m] => (resp.type = m[1] /\ resp.data = FieldData(m))

\* the line PROGRESS:k:x=-12,POS=105 decoded
C11_Witness ==
    /\ rx = Encoded[<<<<"P", "R", "O", "G", "R", "E", "S", "S">>,
                      <<<<<<"k", ":", "x">>, -12>>, <<K_POS, 105>>>>>>]
    /\ resp.type = <<"P", "R", "O", "G", "R", "E", "S", "S">>
    /\ resp.data[<<"k", ":", "x">>] = IntValue(-12)
    /\ resp.data[K_POS] = IntValue(105)

\* C12: processing a line of the device raises no error and leaves the connection
\* state as it was, whatever the line is.
C12_ProcessingRaisesNothing ==
    ui_call.op = "process_response" => ~ui_call.raised

\* a press of a button of the control tab whose handler is op
Pressed(op) == callsLeft' = callsLeft - 1 /\ ui_call'.op = op

\* the commands of the writes a step attempts, in order
NewWrites ==
    LET w == SubSeq(wire', Len(wire) + 1, Len(wire'))
    IN  [i \in 1..Len(w) |-> Cmd(w[i].verb, w[i].n)]

\* C13: a start pressed while connected sets current_cycle to 0, hands
\* SET_CYCLES:<cycles> (finite mode, the target) or SET_CYCLES:0 (infinite mode)
\* and then START to send_command, which writes them in that order (all of them
\* when no write faults), and leaves is_running set and is_paused clear.
C13_StartSetsCyclesThenStarts ==
    [][(Pressed("start_cycles") /\ is_connected(Link)) =>
        LET cmds == <<set_cycles(IF infinite_cycles THEN 0 ELSE cycles_var),
                      Cmd("START", NoArg)>>
        IN  /\ current_cycle' = IntValue(0)
            /\ ~infinite_cycles => target_cycles' = IntValue(cycles_var)
            /\ ui_call'.sent = cmds
            /\ NewWrites = SubSeq(cmds, 1, Len(NewWrites))
            /\ connected' => NewWrites = cmds
            /\ is_running' /\ ~is_paused']_vars

\* a run started after the device had reported cycle 12: both commands written,
\* the count back at 0
C13_Witness ==
    /\ rx = L_PROGRESS
    /\ ui_call = UiCall("start_cycles", <<set_cycles(50), Cmd("START", NoArg)>>, FALSE)
    /\ Len(wire) >= 2
    /\ wire[Len(wire) - 1].verb = "SET_CYCLES" /\ wire[Len(wire) - 1].n = 50
    /\ LastOf(wire).verb = "START" /\ LastOf(wire).ok
    /\ connected
    /\ current_cycle = IntValue(0)
    /\ is_running /\ ~is_paused

\* C14: the pause button, pressed while connected during a run: when is_paused is
\* clear it sends PAUSE and sets is_paused, when is_paused is set it sends RESUME
\* and clears is_paused; is_running, current_cycle and target_cycles stay as they
\* are.
C14_PauseTogglesAndMirrors ==
    [][(Pressed("pause_cycles") /\ is_connected(Link) /\ is_running) =>
        LET cmd == Cmd(IF is_paused THEN "RESUME" ELSE "PAUSE", NoArg)
        IN  /\ ui_call'.sent = <<cmd>>
            /\ NewWrites = <<cmd>>
            /\ is_paused' = ~is_paused
            /\ is_running' = is_running
            /\ current_cycle' = current_cycle
            /\ target_cycles' = target_cycles]_vars

\* a run paused and resumed: RESUME written last, after PAUSE
C14_Witness ==
    /\ ui_call = UiCall("pause_cycles", <<Cmd("RESUME", NoArg)>>, FALSE)
    /\ Len(wire) >= 2
    /\ wire[Len(wire) - 1].verb = "PAUSE" /\ wire[Len(wire) - 1].ok
    /\ LastOf(wire).verb = "RESUME" /\ LastOf(wire).ok
    /\ is_running /\ ~is_paused
    /\ callsLeft = 0

\* the statement of C14 without the condition on the connection: every press of
\* the pause button during a run sends PAUSE or RESUME and toggles is_paused
C14_PauseAlwaysToggles ==
    [][(Pressed("pause_cycles") /\ is_running) =>
        /\ ui_call'.sent = <<Cmd(IF is_paused THEN "RESUME" ELSE "PAUSE", NoArg)>>
        /\ is_paused' = ~is_paused]_vars

\* C15: during a run (is_running set, is_paused set or clear), a press of stop
\* while connected sends STOP and clears both flags; a COMPLETE line processed
\* clears both flags; the notification of a disconnect processed clears both
\* flags; and a run whose connection is down always has that notification
\* ahead of it.
C15_StopCompleteDisconnectIdle ==
    [][/\ (Pressed("stop_cycles") /\ is_connected(Link) /\ is_running)
            => /\ ui_call'.sent = <<Cmd("STOP", NoArg)>>
               /\ NewWrites = <<Cmd("STOP", NoArg)>>
               /\ ~is_running' /\ ~is_paused'
       /\ (UiProcessResponse /\ parse_response(rx').type = T_COMPLETE)
            => (~is_running' /\ ~is_paused')
       /\ (UiConnectionChanged /\ ~Head(uiQueue).flag)
            => (~is_running' /\ ~is_paused')
       /\ (is_running' /\ ~connected')
            => \E i \in 1..Len(uiQueue') :
                    uiQueue'[i].kind = "conn" /\ ~uiQueue'[i].flag]_vars

\* the statement of C15 without the condition on the connection: every press of
\* stop during a run sends STOP and clears both flags
C15_StopAlwaysIdles ==
    [][(Pressed("stop_cycles") /\ is_running) =>
        /\ ui_call'.sent = <<Cmd("STOP", NoArg)>>
        /\ ~is_running' /\ ~is_paused']_vars

\* a paused run stopped: STOP written, both flags clear
C15_Witness ==
    /\ ui_call = UiCall("stop_cycles", <<Cmd("STOP", NoArg)>>, FALSE)
    /\ Len(wire) >= 2
    /\ wire[Len(wire) - 1].verb = "PAUSE"
    /\ LastOf(wire).verb = "STOP" /\ LastOf(wire).ok
    /\ connected
    /\ ~is_running /\ ~is_paused

\* C16: a PROGRESS line processed sets current_cycle to its CYCLE value whatever
\* is_running and is_paused are, sets target_cycles to its TARGET value when
\* infinite mode is not selected and leaves it alone when it is, and leaves
\* is_running and is_paused as they are; PROGRESS:CYCLE=12,TARGET=50 gives 12.
C16_ProgressSetsCounters ==
    [][(UiProcessResponse /\ parse_response(rx').type = T_PROGRESS) =>
        LET d == parse_response(rx').data
        IN  /\ K_CYCLE \in DOMAIN d => current_cycle' = d[K_CYCLE]
            /\ (K_TARGET \in DOMAIN d /\ ~infinite_cycles) => target_cycles' = d[K_TARGET]
            /\ infinite_cycles => target_cycles' = target_cycles
            /\ rx' = L_PROGRESS => current_cycle' = IntValue(12)
            /\ (rx' = L_PROGRESS /\ ~infinite_cycles) => target_cycles' = IntValue(50)
            /\ is_running' = is_running
            /\ is_paused' = is_paused]_vars

\* PROGRESS:CYCLE=12,TARGET=50 processed during a paused run whose target was
\* another
C16_Witness ==
    /\ ui_call.op = "process_response"
    /\ rx = L_PROGRESS
    /\ current_cycle = IntValue(12)
    /\ target_cycles = IntValue(50)
    /\ cycles_var # 50
    /\ ~infinite_cycles
    /\ is_running /\ is_paused

\* C17: while infinite mode is not selected, target_cycles is a number from
\* MinCycles to MaxCycles.
C17_FiniteTargetInRange ==
    ~infinite_cycles =>
        (target_cycles.isInt /\ target_cycles.n >= MinCycles /\ target_cycles.n <= MaxCycles)

\* C18: every SET_CYCLES the application writes carries 0 only when infinite
\* mode is selected, and in finite mode a number from MinCycles to MaxCycles,
\* whether _adjust_cycles, _start_cycles or the settings sync after connect
\* sends it.
C18_SetCyclesInRange ==
    [][\A i \in (Len(wire) + 1)..Len(wire') :
          wire'[i].verb = "SET_CYCLES" =>
            /\ ui_call'.op \in {"adjust_cycles", "start_cycles", "sync_settings"}
            /\ wire'[i].n = 0 => infinite_cycles
            /\ ~infinite_cycles => (wire'[i].n >= MinCycles /\ wire'[i].n <= MaxCycles)]_vars

\* the label one press below the upper limit, "+" pressed while connected:
\* SET_CYCLES:100000 is written
C18_Witness ==
    /\ ui_call = UiCall("adjust_cycles", <<set_cycles(MaxCycles)>>, FALSE)
    /\ wire # <<>>
    /\ LastOf(wire).verb = "SET_CYCLES" /\ LastOf(wire).n = MaxCycles /\ LastOf(wire).ok
    /\ cycles_var = MaxCycles
    /\ ~infinite_cycles

\* C19: an upload thread whose wait for the device ends without a notification
\* (5.0 s after OTA_START, no OK with OTA_READY and no ERR naming OTA processed
\* since) ends there: it reports "Timeout waiting for device ready" as a failure,
\* writes nothing, and has sent no chunk.
C19_ReadyTimeoutFails ==
    [][\A w \in DOMAIN workers :
          (workers[w].pc = "waiting" /\ ~workers[w].signaled /\ workers'[w].pc # "waiting"
              /\ ota_error_message = <<>>)
          => /\ workers'[w].pc = "done"
             /\ workers'[w].bytes_sent = 0
             /\ wire' = wire
             /\ uiQueue' = Append(uiQueue, Task("ota_finish", FALSE, <<>>,
                                                "Timeout waiting for device ready", 0, 0))]_vars

\* an upload that timed out: the failure shown, OTA_START the only write
C19_Witness ==
    /\ ota_finished = Finished("Timeout waiting for device ready", FALSE)
    /\ ~ota_in_progress
    /\ DOMAIN workers = {1}
    /\ workers[1].pc = "done" /\ workers[1].bytes_sent = 0 /\ ~workers[1].signaled
    /\ wire # <<>>
    /\ LastOf(wire).verb = "OTA_START" /\ LastOf(wire).ok
    /\ \A i \in 1..Len(wire) : wire[i].kind # "bytes"

\* C20: an upload thread that was waiting for the device when an ERR line naming
\* OTA was stored sends no chunk: it stays in the wait until it is notified, and
\* then ends.
C20_ErrorEndsWaitingUpload ==
    \A w \in DOMAIN workers :
        workers[w].heard => (workers[w].pc \in {"waiting", "done"} /\ workers[w].bytes_sent = 0)

\* the handling of the ERR line itself: the line is stored, the waiting threads
\* are notified on the spot, and while an upload is on its failure is queued
C20_ErrorStoredAndSignalled ==
    [][/\ (UiProcessResponse /\ pc' = "ui_err") => ota_error_message' = rx'
       /\ UiErrSignal =>
            /\ \A w \in DOMAIN workers :
                  workers[w].pc = "waiting" => workers'[w].signaled
            /\ ota_in_progress =>
                  uiQueue' = Append(uiQueue, Task("ota_finish", FALSE, <<>>, "OTA Error", 0, 0))]_vars

\* the upload thread released by the ERR line is in the chunk loop
C20_ReleasedThreadTransfers ==
    \E w \in DOMAIN workers : workers[w].heard /\ workers[w].pc = "send"

CeilDiv(n, d) == (n + d - 1) \div d

\* the writes of raw bytes on the wire
ChunkWrites == SelectSeq(wire, LAMBDA e : e.kind = "bytes")

RECURSIVE SumOf(_)
SumOf(q) == IF q = <<>> THEN 0 ELSE Head(q).n + SumOf(Tail(q))

\* C21: every chunk an upload thread sends is one raw write followed by one
\* progress notification (bytes_sent, file_size) handed to the UI thread; a
\* thread that comes to the end of its loop (ready received, no fault, no abort)
\* has sent ceil(N / 512) chunks of N bytes in all, its notifications count
\* 512, 1024, ... up to N, so their fractions grow and the last is N / N; a file
\* of 2048 bytes gives 4 chunks.
C21_ChunksAndProgress ==
    [][\A w \in DOMAIN workers :
          LET old == workers[w]
              new == workers'[w]
              N == new.file_size
          IN  /\ new.notes # old.notes =>
                    /\ new.notes = Append(old.notes, <<new.bytes_sent, N>>)
                    /\ new.bytes_sent > old.bytes_sent
                    /\ wire' = Append(wire, [h |-> serial_port, kind |-> "bytes", verb |-> "",
                                             n |-> new.bytes_sent - old.bytes_sent, ok |-> TRUE])
                    /\ uiQueue' = Append(uiQueue, Task("progress", FALSE, <<>>, "",
                                                       new.bytes_sent, N))
              /\ new.bytes_sent # old.bytes_sent => new.notes # old.notes
              /\ new.pc = "verify" =>
                    /\ Len(new.notes) = CeilDiv(N, ChunkSize)
                    /\ \A i \in 1..Len(new.notes) :
                          new.notes[i] = <<IF i * ChunkSize < N THEN i * ChunkSize ELSE N, N>>
                    /\ new.bytes_sent = N
                    /\ (N = 2048 => Len(new.notes) = 4)
                    /\ DOMAIN workers = {1} =>
                          (Len(ChunkWrites') = CeilDiv(N, ChunkSize) /\ SumOf(ChunkWrites') = N)]_vars

\* a file of 2048 bytes uploaded: 4 chunks of 512 bytes, and the notifications
\* 512, 1024, 1536 and 2048 of 2048
C21_Witness ==
    /\ DOMAIN workers = {1}
    /\ workers[1].pc = "verify"
    /\ workers[1].notes = <<<<512, 2048>>, <<1024, 2048>>, <<1536, 2048>>, <<2048, 2048>>>>
    /\ Len(ChunkWrites) = 4
    /\ \A i \in 1..4 : ChunkWrites[i].n = 512 /\ ChunkWrites[i].ok

\* C22: an upload during which the user pressed Abort (ota_abort_flag set while
\* ota_in_progress) does not end as a completed upload: the thread sees the flag
\* at a checkpoint and ends with "Aborted by user".
C22_AbortedUploadNeverCompletes ==
    [][(DOMAIN workers = {1} /\ ota_abort_flag /\ ota_in_progress
            /\ workers[1].pc # "done" /\ workers'[1].pc = "done")
        => uiQueue' # Append(uiQueue, Task("ota_finish", TRUE, <<>>,
                                           "Upload complete - device restarting", 0, 0))]_vars

\* the press of Abort itself, and the checkpoints: the flag is set and, while
\* connected, OTA_ABORT written; a thread that meets the flag at a checkpoint ends there with
\* "Aborted by user" and writes nothing more
C22_AbortAtCheckpoint ==
    [][/\ (callsLeft' = callsLeft - 1 /\ ota_abort_flag' /\ ~ota_abort_flag)
            => /\ ota_in_progress
               /\ is_connected(Link) => NewWrites = <<Cmd("OTA_ABORT", NoArg)>>
       /\ \A w \in DOMAIN workers :
            (ota_abort_flag /\ workers'[w].pc # workers[w].pc
                /\ \/ workers[w].pc = "check" /\ workers[w].bytes_sent < workers[w].file_size
                   \/ workers[w].pc = "waiting" /\ workers[w].signaled /\ ota_error_message = <<>>)
            => /\ workers'[w].pc = "done"
               /\ wire' = wire
               /\ uiQueue' = Append(uiQueue, Task("ota_finish", FALSE, <<>>,
                                                  "Aborted by user", 0, 0))]_vars

\* Abort pressed after chunk 2 of 4: the thread has ended, 2 chunks were written
\* and OTA_ABORT after them
C22_AbortedAfterTwoChunks ==
    /\ DOMAIN workers = {1}
    /\ workers[1].pc = "done" /\ workers[1].file_size = 2048 /\ workers[1].bytes_sent = 1024
    /\ ota_abort_flag
    /\ Len(ChunkWrites) = 2
    /\ LastOf(wire).verb = "OTA_ABORT"
    /\ ota_finished = Finished("Aborted by user", FALSE)

\* C23: once update_ui of _ota_finish has ended an upload and no other was
\* started, the fields of the upload are clear: ota_in_progress False,
\* ota_ready_event and ota_abort_flag not set, ota_error_message empty.
C23_FieldsClearedAfterUpload ==
    (ota_finished # NoFinish /\ ~ota_in_progress)
    => (~ota_ready_event /\ ~ota_abort_flag /\ ota_error_message = <<>>)

\* the part that holds: update_ui clears ota_in_progress, and nothing else
C23_FinishClearsInProgress ==
    [][UiOtaFinished => (~ota_in_progress'
                         /\ ota_ready_event' = ota_ready_event
                         /\ ota_abort_flag' = ota_abort_flag
                         /\ ota_error_message' = ota_error_message)]_vars

\* the line is OK, or begins with OK and a colon
IsOkLine(l) == l = T_OK \/ (Len(l) > 2 /\ SubSeq(l, 1, 3) = <<"O", "K", ":">>)

\* the characters OTA_READY stand somewhere in the line, one after the other
HasReady(l) ==
    \E i \in 1..Len(l) :
        /\ i + 8 <= Len(l)
        /\ \A k \in 0..8 : l[i + k] = S_OTA_READY[k + 1]

\* C24: a line of kind OK that holds OTA_READY anywhere sets ota_ready_event,
\* whether or not the word is a key or a value of a pair; no other line sets it
\* but an ERR line naming OTA.
C24_ReadyAnywhereInOkLine ==
    [][UiProcessResponse =>
        LET l == Head(uiQueue).line
        IN  /\ (IsOkLine(l) /\ HasReady(l)) => ota_ready_event'
            /\ ~(IsOkLine(l) /\ HasReady(l)) => ota_ready_event' = ota_ready_event]_vars

\* OK:a=1,OTA_READY processed: the word is in no pair of the data, the event is set
C24_Witness ==
    /\ rx = R_LATER
    /\ resp.type = T_OK
    /\ DOMAIN resp.data = {<<"a">>}
    /\ ota_ready_event

C26_DisconnectedHoldsNoHandle == ~connected => serial_port = None

\* what holds: a disconnect that returned left no handle, and a fault leaves the
\* handle it found
C26_OnlyDisconnectDropsHandle ==
    [][/\ (pc = "d_clear" /\ pc' # "d_clear") => (serial_port' = None /\ ~connected')
       /\ (connected /\ ~connected' /\ pc # "d_clear") =>
             (serial_port' = serial_port /\ serial_port # None)]_vars

\* a step in which the receive loop t leaves its pass for good
ReadFaultOf(t) == t \in DOMAIN readers /\ readers[t] = "poll" /\ readers'[t] = "done"
ReadFaultNoted == Len(connLog') > Len(connLog) /\ LastOf(connLog').src = "read"

\* C27: when the receive loop meets a read I/O fault the connection state becomes
\* Disconnected, one "connection changed: false" is fired, and the loop ends
\* there: a loop that ended never reads again.
C27_ReadFaultEndsLoop ==
    [][/\ (ReadFaultNoted \/ \E t \in HandleIds : ReadFaultOf(t)) =>
            /\ ~connected'
            /\ connLog' = Append(connLog, [val |-> FALSE, src |-> "read"])
            /\ uiQueue' = Append(uiQueue, Task("conn", FALSE, <<>>, "", 0, 0))
            /\ \E t \in HandleIds :
                  /\ ReadFaultOf(t)
                  /\ \A u \in DOMAIN readers \ {t} : readers'[u] = readers[u]
            /\ wire' = wire
       /\ \A t \in DOMAIN readers : readers[t] = "done" => readers'[t] = "done"]_vars

\* a read fault on an open connection, met while the caller was idle
C27_Witness ==
    /\ connLog # <<>>
    /\ LastOf(connLog) = [val |-> FALSE, src |-> "read"]
    /\ Len(connLog) >= 2
    /\ connLog[Len(connLog) - 1] = [val |-> TRUE, src |-> "connect"]
    /\ ~connected
    /\ reader_thread # None
    /\ readers[reader_thread] = "done"
    /\ serial_port \in openHandles

\* C28: an unexpected error in a pass of the receive loop (also with the handle
\* cleared by a concurrent disconnect) leaves the loop alive and the connection
\* state, the handle and the notifications as they were; the loop backs off and
\* goes back to its test, and a test made with the stop signal set ends it.
C28_UnexpectedErrorKeepsLoop ==
    [][\A t \in DOMAIN readers :
        /\ (readers[t] = "poll" /\ serial_port = None) => readers'[t] \in {"poll", "backoff"}
        /\ (readers[t] # "backoff" /\ readers'[t] = "backoff") =>
              /\ readers[t] = "poll"
              /\ UNCHANGED <<connected, connLog, uiQueue, wire, serial_port, stop_reader>>
        /\ readers[t] = "backoff" => readers'[t] \in {"backoff", "check"}
        /\ (readers[t] = "backoff" /\ readers'[t] = "check") =>
              UNCHANGED <<connected, connLog, uiQueue, wire, serial_port, stop_reader>>
        /\ (readers[t] = "check" /\ readers'[t] # "check") =>
              readers'[t] = IF stop_reader \/ serial_port = None \/ ~connected
                            THEN "done" ELSE "poll"]_vars

\* the loop is backing off after an error it met on the handle a disconnect had
\* cleared, with the stop signal set
C28_Witness ==
    /\ reader_thread # None
    /\ readers[reader_thread] = "backoff"
    /\ serial_port = None
    /\ stop_reader
    /\ ~connected
    /\ cur.op = "disconnect"

\* ------------------------------------------------ runs with fair scheduling
\* The operating system schedules every thread: a receive loop that can take a
\* step takes it, and a call of connect or disconnect that is under way goes on
\* (the join is bounded by its timeout, lines 103-104).
Fairness ==
    /\ \A t \in HandleIds : WF_vars(ReaderCheck(t))
    /\ \A t \in HandleIds : WF_vars(ReaderPoll(t, TransportLines))
    /\ \A t \in HandleIds : WF_vars(ReaderBackoff(t))
    /\ WF_vars(DisconnectJoined \/ DisconnectJoinTimeout)
    /\ WF_vars(DisconnectClose)
    /\ WF_vars(DisconnectClear)
    /\ WF_vars(ConnectOpenOk \/ ConnectOpenFail)
    /\ WF_vars(ConnectPing)

SpecFair == Init /\ [][Next]_vars /\ Fairness

\* disconnect has just signalled the loop t to stop (line 101) and t is still running
StopSignalled(t) == pc = "d_join" /\ stop_reader /\ reader_thread = t /\ is_alive(t)

\* C29: after disconnect signals the receive loop to stop, the loop started for
\* that connection eventually exits, also when the join timed out and also when
\* connect is called again afterwards.
C29_StoppedLoopExits ==
    \A t \in HandleIds : StopSignalled(t) ~> ~is_alive(t)

\* what holds: the loop exits unless the stop signal is taken back
C29_StoppedLoopExitsWhileSignalled ==
    \A t \in HandleIds : StopSignalled(t) ~> (~is_alive(t) \/ ~stop_reader)

\* the receive loops that are running
Running == {t \in DOMAIN readers : readers[t] # "done"}

\* a loop started for an earlier connection passes its test and goes on to read
\* while the handle held is that of a later connection
ReadsLaterHandle(t) ==
    /\ t \in DOMAIN readers
    /\ readers[t] = "check" /\ readers'[t] = "poll"
    /\ serial_port # t

\* C30: at any time at most one receive loop is running, and a loop started for
\* an earlier connection never reads from the handle of a later connection.
C30_OneLoopOnOwnHandle ==
    [][/\ Cardinality(Running') <= 1
       /\ \A t \in HandleIds : ~ReadsLaterHandle(t)]_vars

\* the second half alone
C30_LoopReadsOwnHandle == [][\A t \in HandleIds : ~ReadsLaterHandle(t)]_vars

\* what holds: the loop started last is the one of the handle held, and while no
\* second connection was made at most one loop runs
C30_NewestLoopOwnsHandle ==
    /\ (connected /\ serial_port # None) => reader_thread = serial_port
    /\ nHandles <= 1 => Cardinality(Running) <= 1

\* the finish notification a step hands to the UI thread, if it hands one
FinishTask(msg, success) == Task("ota_finish", success, <<>>, msg, 0, 0)
Finishes(msg, success) == uiQueue' = Append(uiQueue, FinishTask(msg, success))

\* the upload thread w leaves the position at in this step
Leaves(w, at) == workers[w].pc = at /\ workers'[w].pc # at

\* C31: at a checkpoint before a chunk (the abort flag, tested first, being clear)
\* a thread that finds the transport not connected ends with "Connection lost"
\* and writes nothing; a thread whose chunk write fails ends with "Failed to send
\* data"; in both cases bytes_sent stays as it was, and a thread that has ended
\* never moves again, so it writes no further chunk.
C31_LostOrFailedChunkEnds ==
    [][\A w \in DOMAIN workers :
        /\ (Leaves(w, "check") /\ workers[w].bytes_sent < workers[w].file_size
               /\ ~ota_abort_flag /\ ~is_connected(Link)) =>
              /\ workers'[w] = [workers[w] EXCEPT !.pc = "done"]
              /\ Finishes("Connection lost", FALSE)
              /\ wire' = wire
        /\ (Leaves(w, "send") /\ ~lastSend'.val) =>
              /\ workers'[w] = [workers[w] EXCEPT !.pc = "done"]
              /\ LastOf(uiQueue') = FinishTask("Failed to send data", FALSE)
              /\ \A i \in (Len(wire) + 1)..Len(wire') : ~wire'[i].ok
        /\ (Leaves(w, "send") /\ workers'[w].bytes_sent # workers[w].bytes_sent) =>
              /\ lastSend' = [fn |-> "send_bytes", val |-> TRUE]
              /\ Len(wire') = Len(wire) + 1
              /\ LastOf(wire').ok /\ LastOf(wire').kind = "bytes"
              /\ LastOf(wire').n = workers'[w].bytes_sent - workers[w].bytes_sent
        /\ workers[w].pc = "done" => workers'[w] = workers[w]
        /\ (\E i \in (Len(wire) + 1)..Len(wire') : wire'[i].kind = "bytes") =>
              \E v \in DOMAIN workers : Leaves(v, "send")]_vars

\* an upload of 2048 bytes ended "Connection lost" after its first chunk
C31_Witness ==
    /\ DOMAIN workers = {1}
    /\ workers[1].pc = "done"
    /\ workers[1].file_size = 2048
    /\ workers[1].bytes_sent = 512
    /\ ota_finished = Finished("Connection lost", FALSE)
    /\ Len(ChunkWrites) = 1
    /\ ~connected

\* an upload ended "Failed to send data" at its second chunk
C31_WitnessWriteFailed ==
    /\ DOMAIN workers = {1}
    /\ workers[1].pc = "done"
    /\ workers[1].bytes_sent = 512
    /\ ota_finished = Finished("Failed to send data", FALSE)
    /\ Len(ChunkWrites) = 2
    /\ ~LastOf(ChunkWrites).ok

\* C32: a thread that reaches the stall test of a checkpoint (abort flag clear,
\* transport connected) ends with "Upload timeout" exactly when more than 5.0 s
\* have passed since its last successful chunk, or since the transfer began when
\* none was sent; the timer starts clear with the transfer, and only a successful
\* chunk send restarts it.
C32_StallEndsUpload ==
    [][\A w \in DOMAIN workers :
        /\ (Leaves(w, "check") /\ workers[w].bytes_sent < workers[w].file_size
               /\ ~ota_abort_flag /\ is_connected(Link)) =>
              IF workers[w].stalled
              THEN /\ workers'[w] = [workers[w] EXCEPT !.pc = "done"]
                   /\ Finishes("Upload timeout", FALSE)
                   /\ wire' = wire
              ELSE /\ workers'[w] = [workers[w] EXCEPT !.pc = "send"]
                   /\ uiQueue' = uiQueue
        /\ (Len(uiQueue') > Len(uiQueue)
               /\ LastOf(uiQueue') = FinishTask("Upload timeout", FALSE)) =>
              \E v \in DOMAIN workers :
                  /\ Leaves(v, "check") /\ workers[v].stalled
                  /\ workers[v].bytes_sent < workers[v].file_size
        /\ (workers[w].stalled /\ ~workers'[w].stalled) =>
              /\ Leaves(w, "send")
              /\ workers'[w].bytes_sent > workers[w].bytes_sent
              /\ LastOf(wire').ok /\ Len(wire') = Len(wire) + 1
        /\ workers'[w].bytes_sent > workers[w].bytes_sent => ~workers'[w].stalled
        /\ (Leaves(w, "waiting") /\ workers'[w].pc = "check") => ~workers'[w].stalled
        /\ (Leaves(w, "send") /\ workers'[w].pc = "done") =>
              workers'[w].stalled = workers[w].stalled]_vars

\* an upload of 2048 bytes ended "Upload timeout" after two chunks, still connected
C32_Witness ==
    /\ DOMAIN workers = {1}
    /\ workers[1].pc = "done"
    /\ workers[1].stalled
    /\ workers[1].file_size = 2048
    /\ workers[1].bytes_sent = 1024
    /\ ota_finished = Finished("Upload timeout", FALSE)
    /\ Len(ChunkWrites) = 2
    /\ connected
    /\ ~ota_abort_flag

\* the step declares an upload complete
DeclaresSuccess == Finishes("Upload complete - device restarting", TRUE)

\* C33: an upload is declared complete only by a thread that has written every
\* byte of the file successfully and has passed the settle delay, and never when
\* the upload was aborted or the connection was lost.
C33_SucceededOnlyAfterCleanTransfer ==
    [][DeclaresSuccess =>
          /\ \E w \in DOMAIN workers :
                /\ Leaves(w, "verify")
                /\ workers[w].bytes_sent = workers[w].file_size
                /\ Len(workers[w].notes) = CeilDiv(workers[w].file_size, ChunkSize)
          /\ ~ota_abort_flag
          /\ is_connected(Link)]_vars

\* what holds: the thread that declares the upload complete has sent every byte,
\* each chunk by a successful write, and comes from the settle delay
C33_SuccessAfterAllBytes ==
    [][DeclaresSuccess =>
          \E w \in DOMAIN workers :
                /\ Leaves(w, "verify")
                /\ workers'[w].pc = "done"
                /\ workers[w].bytes_sent = workers[w].file_size
                /\ Len(workers[w].notes) = CeilDiv(workers[w].file_size, ChunkSize)
                /\ wire' = wire]_vars

\* the abort alone, and the loss of the connection alone
C33_NoSuccessAfterAbort == [][DeclaresSuccess => ~ota_abort_flag]_vars
C33_NoSuccessAfterLoss == [][DeclaresSuccess => is_connected(Link)]_vars

\* the step ends an upload with a fault: a finish notification without success
OtaFault ==
    /\ Len(uiQueue') > Len(uiQueue)
    /\ LastOf(uiQueue').kind = "ota_finish"
    /\ ~LastOf(uiQueue').flag
FaultReasons ==
    {"Timeout waiting for device ready", "Device error", "OTA Error", "Aborted by user",
     "Connection lost", "Upload timeout", "Failed to send data", "Error"}

\* C34: an upload fault (ready timeout, device error, connection lost, stall
\* timeout, write failure, abort) ends the upload with a reason and leaves the
\* receive loops and the connection state as they were.
C34_FaultKeepsConnection ==
    [][OtaFault =>
          /\ LastOf(uiQueue').msg \in FaultReasons
          /\ readers' = readers
          /\ stop_reader' = stop_reader
          /\ connected' = connected]_vars

\* C34, amended: the same, but for a write failure: when the write of a chunk
\* raises, send_bytes sets the state Disconnected and notifies "connection
\* changed: false" before the upload ends with "Failed to send data".  No fault
\* stops a receive loop, sets the stop signal, or closes or drops the handle.
C34_FaultKeepsConnectionButWriteFault ==
    [][OtaFault =>
          /\ LastOf(uiQueue').msg \in FaultReasons
          /\ readers' = readers
          /\ stop_reader' = stop_reader
          /\ UNCHANGED <<serial_port, port_name, reader_thread, openHandles>>
          /\ \/ connected' = connected /\ connLog' = connLog
             \/ /\ LastOf(uiQueue').msg = "Failed to send data"
                /\ connected /\ ~connected'
                /\ connLog' = Append(connLog, [val |-> FALSE, src |-> "write"])
                /\ Len(wire') = Len(wire) + 1
                /\ LastOf(wire').kind = "bytes" /\ ~LastOf(wire').ok]_vars

\* an upload ended by the ready timeout, the connection open and its loop running
C34_Witness ==
    /\ DOMAIN workers = {1}
    /\ workers[1].pc = "done"
    /\ ota_finished = Finished("Timeout waiting for device ready", FALSE)
    /\ connected
    /\ reader_thread # None
    /\ is_alive(reader_thread)
    /\ serial_port \in openHandles

\* C35: while no upload is in progress, processing a line (an OK line holding
\* OTA_READY, an ERR line naming OTA, or any other) leaves ota_ready_event,
\* ota_error_message and ota_in_progress as they were.
C35_IdleLinesLeaveOtaState ==
    [][((UiProcessResponse \/ UiErrSignal) /\ ~ota_in_progress) =>
          UNCHANGED <<ota_ready_event, ota_error_message, ota_in_progress>>]_vars

\* C35, the consequence: when the device's only line was received before any
\* upload was started, no upload thread is ever released into the transfer
C35_StaleAnswerReleasesNothing ==
    []((DOMAIN workers = {} /\ ~ota_in_progress /\ linesLeft = 0) =>
          [](\A w \in DOMAIN workers : workers[w].pc \notin {"check", "send", "verify"}))

\* what holds: a line processed before the thread begins cannot release it, since
\* the thread clears the event and the message first
C35_ThreadClearsBeforeWaiting ==
    [][\A w \in DOMAIN workers :
          (Leaves(w, "start") /\ workers'[w].pc = "enter_wait") =>
              (~ota_ready_event' /\ ota_error_message' = <<>>)]_vars

\* ------------------------------------------- runs with cycles and reconnects
\* calls of connect, disconnect, send_command and send_bytes and presses of START,
\* PAUSE and STOP in a run
MaxRunCalls == 4

\* Nothing was pressed yet; the device sends no line.
InitRun ==
    /\ InitCore
    /\ InitLabel
    /\ pc = "idle"
    /\ cur = NoCall
    /\ ota_file_path = None
    /\ callsLeft = MaxRunCalls
    /\ tweaksLeft = 0
    /\ linesLeft = 0
    /\ rx = <<>>
    /\ resp = NoResp

NextRun ==
    \/ \E p \in Ports : ConnectBegin(p)
    \/ DisconnectBegin
    \/ DisconnectJoined
    \/ DisconnectJoinTimeout
    \/ DisconnectClose
    \/ DisconnectClear
    \/ ConnectOpenOk
    \/ ConnectOpenFail
    \/ ConnectPing
    \/ \E t \in HandleIds : ReaderCheck(t)
    \/ \E t \in HandleIds : ReaderPoll(t, {})
    \/ \E t \in HandleIds : ReaderBackoff(t)
    \/ UiConnectionChanged
    \/ StartCycles
    \/ PauseCycles
    \/ StopCycles
    \/ SendLine
    \/ SendBytes

SpecRun == InitRun /\ [][NextRun]_vars

\* no notification of a connection change waits for the UI thread
NoPendingConn == \A i \in 1..Len(uiQueue) : uiQueue[i].kind # "conn"

\* C36: whenever the transport is Disconnected and the UI thread has processed
\* every connection-changed notification, is_running and is_paused are clear,
\* also when the link was lost by a write of SET_CYCLES or START that faulted
\* inside _start_cycles.
C36_DisconnectedMeansIdle ==
    (~connected /\ NoPendingConn) => (~is_running /\ ~is_paused)

\* START was pressed while connected, its write of START faulted, and the
\* notification has been processed
C36_Witness ==
    /\ ~connected
    /\ NoPendingConn
    /\ ui_call.op = "start_cycles"
    /\ Len(ui_call.sent) = 2
    /\ wire # <<>>
    /\ LastOf(wire).verb = "START"
    /\ ~LastOf(wire).ok
    /\ LastOf(connLog) = [val |-> FALSE, src |-> "write"]
    /\ ~is_running
    /\ current_cycle = IntValue(0)

\* a finish notification of an upload was handed to the UI thread before
Reported ==
    \/ ota_finished # NoFinish
    \/ \E i \in 1..Len(uiQueue) : uiQueue[i].kind = "ota_finish"
ReportsNow == Len(uiQueue') > Len(uiQueue) /\ LastOf(uiQueue').kind = "ota_finish"
WritesChunk == \E i \in (Len(wire) + 1)..Len(wire') : wire'[i].kind = "bytes"

\* C37: the one upload of a run reports one outcome only, and once it is reported
\* its thread writes no further chunk.
C37_OneOutcomeThenSilence ==
    [][DOMAIN workers' = {1} =>
          /\ ReportsNow => ~Reported
          /\ WritesChunk => ~Reported]_vars

\* each half alone
C37_OneOutcome == [][(DOMAIN workers' = {1} /\ ReportsNow) => ~Reported]_vars
C37_NoChunkAfterOutcome == [][(DOMAIN workers' = {1} /\ WritesChunk) => ~Reported]_vars

\* what holds: the thread itself reports at most once, in the step that ends it
C37_ThreadReportsOnce ==
    [][\A w \in DOMAIN workers :
          /\ workers[w].pc = "done" => workers'[w] = workers[w]
          /\ (workers[w].pc # "done" /\ ReportsNow /\ pc = "idle" /\ pc' = "idle"
                 /\ workers'[w] # workers[w]) => workers'[w].pc = "done"]_vars

\* an ERR line processed during the transfer: "OTA Error" was shown while the
\* thread, one chunk sent, goes on to the next
C37_ErrorDuringTransfer ==
    /\ DOMAIN workers = {1}
    /\ workers[1].pc = "send"
    /\ workers[1].bytes_sent = 512
    /\ ota_error_message # <<>>
    /\ ota_finished = Finished("OTA Error", FALSE)
    /\ ~ota_in_progress
    /\ connected

\* C38: the run is Idle, Running or Paused: is_paused is set only while
\* is_running is set, after any presses of START, PAUSE and STOP (PAUSE and STOP
\* enabled only while running), PROGRESS and COMPLETE lines and changes of the
\* connection.
C38_PausedOnlyWhileRunning == is_paused => is_running

\* a paused run, a line of the device processed during it
C38_Witness ==
    /\ is_running
    /\ is_paused
    /\ ui_call.op = "process_response"
    /\ rx # <<>>
    /\ connected

\* the receive loop t takes a step, and t is not the loop of the connection held
EarlierLoopSteps(t) ==
    /\ t \in DOMAIN readers
    /\ readers'[t] # readers[t]
    /\ reader_thread # t
    /\ serial_port # None /\ serial_port # t

\* C39: a step of a receive loop started for an earlier connection (a late read
\* fault, its exit) leaves the state of the later connection Connected and fires
\* no "connection changed: false".
C39_EarlierLoopLeavesLaterConnection ==
    [][\A t \in HandleIds :
          (EarlierLoopSteps(t) /\ connected) => (connected' /\ connLog' = connLog)]_vars

\* what holds: the exit of an earlier loop at its test, and its back-off, change
\* nothing of the connection; only a read fault it meets does
C39_EarlierLoopExitIsSilent ==
    [][\A t \in HandleIds :
          (EarlierLoopSteps(t) /\ ~ReadFaultOf(t)) =>
              UNCHANGED <<connected, connLog, serial_port, port_name, stop_reader>>]_vars

\* C39, the case named: the later connection was made by a connect that followed
\* a disconnect (its own, of an open connection, or one called before it)
C39_AfterDisconnectAndConnect ==
    [][\A t \in HandleIds :
          (EarlierLoopSteps(t) /\ connected /\ cur.op = "connect"
              /\ (cur.wasConnected \/ cur.before.op = "disconnect")) =>
              (connected' /\ connLog' = connLog)]_vars

\* what a call made while Disconnected has to leave alone
TransportKept == UNCHANGED <<connected, serial_port, port_name, connLog, wire>>
CycleRunKept == UNCHANGED <<is_running, is_paused, current_cycle, target_cycles>>

\* C40: send_command and send_bytes called while the state is Disconnected
\* return False, write nothing to any handle, fire no notification and leave
\* connected, the handle and the port name as they are; START, PAUSE and STOP
\* pressed while Disconnected leave is_running, is_paused, current_cycle and
\* target_cycles as they are, send nothing and change nothing of the transport
C40_DisconnectedCallsChangeNothing ==
    [][~connected =>
          /\ (SendLine \/ SendBytes) => (~ret'.val /\ ~lastSend'.val /\ TransportKept)
          /\ (StartCycles \/ PauseCycles \/ StopCycles) =>
                 (CycleRunKept /\ TransportKept /\ ui_call'.sent = <<>>)]_vars

\* a run is on, the link was lost, PAUSE was pressed and sent nothing, and the
\* call of send_command made after it returned False: only the lines of the
\* start were ever written
C40_Witness ==
    /\ ~connected
    /\ is_running
    /\ ui_call = UiCall("pause_cycles", <<>>, FALSE)
    /\ ret = Return("send_command", FALSE, FALSE, FALSE)
    /\ \A i \in 1..Len(wire) : wire[i].verb \in {"PING", "SET_CYCLES", "START"}

\* START pressed while Disconnected, then send_bytes: nothing was ever written
C40_WitnessStartAndBytes ==
    /\ ~connected
    /\ ui_call = UiCall("start_cycles", <<>>, FALSE)
    /\ ret = Return("send_bytes", FALSE, FALSE, FALSE)
    /\ wire = <<>>

\* STOP pressed while Disconnected: the run flags stay set
C40_WitnessStop ==
    /\ ~connected
    /\ is_running
    /\ ui_call = UiCall("stop_cycles", <<>>, FALSE)

====
